---------------------------- MODULE Spec2Model ----------------------------
(***************************************************************************)
(* Unit conversion, cost aggregation, menu needs and the stock ledger of   *)
(* the Atelier Culinaire POF application (units.py, logic.py,              *)
(* pages/logic.py, acpof_pages/menus.py, acpof_pages/inventory.py,         *)
(* sheets_sync.py).                                                        *)
(*                                                                         *)
(* Python floats are modelled as exact rationals [num, den] in lowest      *)
(* terms with den > 0, so that equality of two numbers is equality of      *)
(* their records.  Rounding of binary floating point is not modelled.      *)
(***************************************************************************)
EXTENDS Integers, Sequences, FiniteSets, TLC

VARIABLES
    ingredients,   \* table ingredients: id -> [base_unit, price_per_base_unit]
    recipes,       \* table recipes: id -> [servings, items], items a sequence
                   \*   of [ingredient_id, quantity, unit] in iteration order
    menuItems,     \* menu_items of the menu at hand, in iteration order:
                   \*   sequence of [recipe_id, batches]
    movements,     \* table stock_movements, in insertion order
    ledger,        \* history of the successful add_stock_movement calls; for
                   \*   the menus pages, the rows of portions entered at the
                   \*   save that wrote menuItems; for the production page,
                   \*   the tables of its sqlite database
    procs,         \* concurrent add_stock_movement calls: position and locals
    call,          \* the operation applied last and its arguments
    result         \* what the operation applied last returned or raised

vars == <<ingredients, recipes, menuItems, movements, ledger, procs, call, result>>

----------------------------------------------------------------------------
(* Exact arithmetic standing for Python float arithmetic.                  *)

AbsInt(n) == IF n < 0 THEN -n ELSE n

RECURSIVE GCD(_, _)
GCD(a, b) == IF b = 0 THEN a ELSE GCD(b, a % b)

\* The rational n/d (d # 0) in lowest terms with a positive denominator.
Rat(n, d) ==
    LET g == GCD(AbsInt(n), AbsInt(d))
        s == IF d < 0 THEN -1 ELSE 1
    IN  [num |-> (s * n) \div g, den |-> (s * d) \div g]

RInt(n) == [num |-> n, den |-> 1]
RZero == RInt(0)
RAdd(a, b) == Rat(a.num * b.den + b.num * a.den, a.den * b.den)
RMul(a, b) == Rat(a.num * b.num, a.den * b.den)
RNeg(a) == [num |-> -a.num, den |-> a.den]
RAbs(a) == [num |-> AbsInt(a.num), den |-> a.den]
RDiv(a, b) == Rat(a.num * b.den, a.den * b.num)
RLe(a, b) == a.num * b.den <= b.num * a.den
RIsZero(a) == a.num = 0


----------------------------------------------------------------------------
(* units.py                                                                *)

\* What a call returns or raises.
Ok(v) == [kind |-> "ok", value |-> v]
Raise(e) == [kind |-> e]

\* The unit tokens the model draws from: the known units, count synonyms,
\* upper-case spellings, an imperial unit, a packaging word and the empty
\* string.
UnitTokens ==
    {"mg", "g", "kg", "ml", "l", "unit", "un", "pcs", "piece", "pièce",
     "KG", "G", "ML", "L", "UNIT", "lb", "caisse", ""}

\* str.lower() on the tokens above.
Lower(u) ==
    CASE u = "KG" -> "kg"
      [] u = "G" -> "g"
      [] u = "ML" -> "ml"
      [] u = "L" -> "l"
      [] u = "UNIT" -> "unit"
      [] OTHER -> u

\* weight = {"mg": 0.001, "g": 1.0, "kg": 1000.0}
weight == [u \in {"mg", "g", "kg"} |->
             CASE u = "mg" -> Rat(1, 1000)
               [] u = "g" -> RInt(1)
               [] u = "kg" -> RInt(1000)]

\* volume = {"ml": 1.0, "l": 1000.0}
volume == [u \in {"ml", "l"} |->
             CASE u = "ml" -> RInt(1)
               [] u = "l" -> RInt(1000)]

\* The units accepted with base_unit "unit".
CountUnits == {"unit", "un", "pcs", "piece", "pièce"}

\* A conversion that applies the factor of the unit whatever the family of
\* the base unit.
ToBaseUnitsNoFamilyCheck(quantity, unit, base_unit) ==
    LET u == Lower(unit)
        b == Lower(base_unit)
        f == IF u \in DOMAIN weight THEN weight[u]
             ELSE IF u \in DOMAIN volume THEN volume[u]
             ELSE RInt(1)
    IN  IF b \in {"unit", "g", "ml"} THEN Ok(RMul(quantity, f))
        ELSE Raise("ValueError")

\* to_base_units(quantity, unit, base_unit)
to_base_units(quantity, unit, base_unit) ==
    LET u == Lower(unit)
        b == Lower(base_unit)
    IN  IF b = "unit" THEN
            IF u \notin CountUnits THEN Raise("ValueError")
            ELSE Ok(quantity)
        ELSE IF b = "g" THEN
            IF u \notin DOMAIN weight THEN Raise("ValueError")
            ELSE Ok(RMul(quantity, weight[u]))
        ELSE IF b = "ml" THEN
            IF u \notin DOMAIN volume THEN Raise("ValueError")
            ELSE Ok(RMul(quantity, volume[u]))
        ELSE Raise("ValueError")

\* normalize_unit(u)
normalize_unit(u) ==
    LET l == Lower(u)
    IN  CASE l = "un" -> "unit"
          [] l = "pcs" -> "unit"
          [] OTHER -> l

----------------------------------------------------------------------------
(* pages/logic.py: compute_price_per_base_unit                             *)

\* A guard that lets a pack of size zero through ("pack_in_base < 0").
PackNegative(pack_in_base) == ~ RLe(RZero, pack_in_base)

\* The guard "pack_in_base <= 0".
PackNotPositive(pack_in_base) == RLe(pack_in_base, RZero)

\* Python's float division: ZeroDivisionError on a zero divisor.
PyDiv(a, b) == IF RIsZero(b) THEN Raise("ZeroDivisionError") ELSE Ok(RDiv(a, b))

\* A price that multiplies where it should divide.
PriceTimesPack(purchase_price, pack_in_base) ==
    Ok(RMul(purchase_price, pack_in_base))

\* The return expression "purchase_price / pack_in_base".
PriceOverPack(purchase_price, pack_in_base) == PyDiv(purchase_price, pack_in_base)

compute_price_per_base_unit(pack_size, pack_unit, base_unit, purchase_price) ==
    LET pack_in_base == to_base_units(pack_size, normalize_unit(pack_unit), base_unit)
    IN  IF pack_in_base.kind # "ok" THEN pack_in_base
        ELSE IF PackNotPositive(pack_in_base.value) THEN Raise("ValueError")
        ELSE PriceOverPack(purchase_price, pack_in_base.value)

----------------------------------------------------------------------------
(* pages/logic.py (and its copy logic.py): recipe_cost                     *)

\* A divisor without the guard against servings <= 0.
ServingsDivisorUnguarded(servings) == servings

\* max(1, r.servings)
ServingsDivisor(servings) == IF servings > 1 THEN servings ELSE 1

\* The loop "for it in r.items" from item i on, with the running total.  An
\* exception raised by to_base_units leaves the loop and the function.
RECURSIVE CostLoop(_, _, _)
CostLoop(items, i, total) ==
    IF i > Len(items) THEN Ok(total)
    ELSE LET it == items[i]
             ing == ingredients[it.ingredient_id]
             qty_base == to_base_units(it.quantity, normalize_unit(it.unit),
                                       ing.base_unit)
         IN  IF qty_base.kind # "ok" THEN qty_base
             ELSE CostLoop(items, i + 1,
                           RAdd(total, RMul(qty_base.value, ing.price_per_base_unit)))

recipe_cost(recipe_id) ==
    IF recipe_id \notin DOMAIN recipes
    THEN Ok([total_cost |-> RZero, per_serving |-> RZero])
    ELSE LET r == recipes[recipe_id]
             total == CostLoop(r.items, 1, RZero)
         IN  IF total.kind # "ok" THEN total
             ELSE LET per == PyDiv(total.value, RInt(ServingsDivisor(r.servings)))
                  IN  IF per.kind # "ok" THEN per
                      ELSE Ok([total_cost |-> total.value, per_serving |-> per.value])

----------------------------------------------------------------------------
(* pages/logic.py (and its copy logic.py): menu_aggregate_needs            *)

\* float(mi.batches or 1.0): a zero is falsy.
BatchFactor(batches) == IF RIsZero(batches) THEN RInt(1) ELSE batches

\* needs.get(ing.id) or {...}; rec["total_qty_base"] += qty_base;
\* needs[ing.id] = rec
Accumulate(needs, ing_id, base_unit, qty_base) ==
    LET old == IF ing_id \in DOMAIN needs THEN needs[ing_id].total_qty_base
               ELSE RZero
    IN  [k \in DOMAIN needs \cup {ing_id} |->
            IF k = ing_id
            THEN [base_unit |-> base_unit, total_qty_base |-> RAdd(old, qty_base)]
            ELSE needs[k]]

\* The inner loop "for it in r.items" from item j on.
RECURSIVE NeedsItems(_, _, _, _)
NeedsItems(items, j, factor, needs) ==
    IF j > Len(items) THEN Ok(needs)
    ELSE LET it == items[j]
             ing == ingredients[it.ingredient_id]
             conv == to_base_units(it.quantity, normalize_unit(it.unit),
                                   ing.base_unit)
         IN  IF conv.kind # "ok" THEN conv
             ELSE NeedsItems(items, j + 1, factor,
                             Accumulate(needs, it.ingredient_id, ing.base_unit,
                                        RMul(conv.value, factor)))

\* The outer loop "for mi in m.items" from menu item i on.
RECURSIVE NeedsMenuItems(_, _, _)
NeedsMenuItems(mis, i, needs) ==
    IF i > Len(mis) THEN Ok(needs)
    ELSE LET mi == mis[i]
             r == recipes[mi.recipe_id]
             inner == NeedsItems(r.items, 1, BatchFactor(mi.batches), needs)
         IN  IF inner.kind # "ok" THEN inner
             ELSE NeedsMenuItems(mis, i + 1, inner.value)

\* menu_aggregate_needs of a menu whose items are mis.
menu_aggregate_needs(mis) == NeedsMenuItems(mis, 1, <<>>)

----------------------------------------------------------------------------
(* acpof_pages/menus.py: the needs aggregation of menus_page               *)

\* float(l.batches or 0.0)
PageFactor(batches) == batches

\* it.unit or ing.base_unit or "g"
FirstTruthy(a, b, c) == IF a # "" THEN a ELSE IF b # "" THEN b ELSE c

\* needs[ing.id]["total_base"] += total_add, creating the entry when absent.
PageAccumulate(needs, ing_id, base_unit, total_add) ==
    LET old == IF ing_id \in DOMAIN needs THEN needs[ing_id].total_base
               ELSE RZero
    IN  [k \in DOMAIN needs \cup {ing_id} |->
            IF k = ing_id
            THEN [base_unit |-> base_unit, total_base |-> RAdd(old, total_add)]
            ELSE needs[k]]

\* The loop "for it in recipe_items" from item j on.
RECURSIVE PageNeedsItems(_, _, _, _)
PageNeedsItems(items, j, factor, needs) ==
    IF j > Len(items) THEN needs
    ELSE LET it == items[j]
             ing == ingredients[it.ingredient_id]
             unit == normalize_unit(FirstTruthy(it.unit, ing.base_unit, "g"))
             conv == to_base_units(it.quantity, unit,
                                   IF ing.base_unit # "" THEN ing.base_unit ELSE "g")
         IN  IF RLe(it.quantity, RZero) \/ conv.kind # "ok"
             THEN PageNeedsItems(items, j + 1, factor, needs)
             ELSE PageNeedsItems(items, j + 1, factor,
                                 PageAccumulate(needs, it.ingredient_id, ing.base_unit,
                                                RMul(conv.value, factor)))

\* The loop "for l in links" from link i on.
RECURSIVE PageNeedsLinks(_, _, _)
PageNeedsLinks(links, i, needs) ==
    IF i > Len(links) THEN needs
    ELSE LET l == links[i]
             factor == PageFactor(l.batches)
         IN  IF RLe(factor, RZero)
             THEN PageNeedsLinks(links, i + 1, needs)
             ELSE PageNeedsLinks(links, i + 1,
                                 PageNeedsItems(recipes[l.recipe_id].items, 1,
                                                factor, needs))

menus_page_needs(links) == PageNeedsLinks(links, 1, <<>>)

----------------------------------------------------------------------------
(* pages/logic.py: the stock ledger                                        *)

\* A row of stock_movements.  add_stock_movement leaves qty and unit to
\* their column defaults (0.0 and "g", db.py); the inventory page of
\* acpof_pages and the spreadsheet import leave quantity_base to its own.
Movement(ingredient_id, qty, unit, quantity_base, movement_type) ==
    [ingredient_id |-> ingredient_id, qty |-> qty, unit |-> unit,
     quantity_base |-> quantity_base, movement_type |-> movement_type]

\* A sign rule that forgets the sign of an "out" movement.
SignedQtyUnsignedOut(movement_type, qty_base) ==
    IF movement_type = "adjust" THEN qty_base ELSE RAbs(qty_base)

\* signed = qty_base; "out" -> -abs(qty_base); "in" -> abs(qty_base)
SignedQty(movement_type, qty_base) ==
    IF movement_type = "out" THEN RNeg(RAbs(qty_base))
    ELSE IF movement_type = "in" THEN RAbs(qty_base)
    ELSE qty_base

\* An insert that keeps one row per ingredient: the new row overwrites the
\* last row of the same ingredient (last write wins).
DbInsertLastWriteWins(table, row) ==
    IF \E k \in 1..Len(table) : table[k].ingredient_id = row.ingredient_id
    THEN [k \in 1..Len(table) |->
            IF table[k].ingredient_id = row.ingredient_id THEN row ELSE table[k]]
    ELSE Append(table, row)

\* db.add(mv); db.commit(): an INSERT of one new row.
DbInsert(table, row) == Append(table, row)

\* SELECT ingredient_id, coalesce(sum(quantity_base), 0.0) ... GROUP BY
\* ingredient_id, from row i on.
RECURSIVE SumRows(_, _, _)
SumRows(table, i, acc) ==
    IF i > Len(table) THEN acc
    ELSE LET id == table[i].ingredient_id
             old == IF id \in DOMAIN acc THEN acc[id] ELSE RZero
         IN  SumRows(table, i + 1,
                     [k \in DOMAIN acc \cup {id} |->
                         IF k = id THEN RAdd(old, table[i].quantity_base)
                         ELSE acc[k]])

current_stock_map(table) == SumRows(table, 1, <<>>)

\* add_stock_movement up to the row it is about to insert: Ok(row), or the
\* ValueError of to_base_units or of the movement_type check.
StockMovementRow(ingredient_id, qty, unit, movement_type) ==
    LET qty_base == to_base_units(qty, normalize_unit(unit),
                                  ingredients[ingredient_id].base_unit)
    IN  IF qty_base.kind # "ok" THEN qty_base
        ELSE IF movement_type \notin {"in", "out", "adjust"} THEN Raise("ValueError")
        ELSE Ok(Movement(ingredient_id, RZero, "g",
                         SignedQty(movement_type, qty_base.value), movement_type))

----------------------------------------------------------------------------
(* Bounds and the sets the inputs are drawn from.                          *)

MaxItems == 2        \* items of the recipe handed to recipe_cost
MaxMovements == 3    \* rows of stock_movements
NProcs == 2          \* concurrent add_stock_movement calls

IngIds == {1, 2, 3}
RecipeIds == {1, 2}

\* A row of ingredients, its derived price computed the way the
\* ingredients page computes it before it saves.
IngredientRow(base_unit, pack_size, pack_unit, purchase_price) ==
    [base_unit |-> base_unit, pack_size |-> pack_size,
     pack_unit |-> normalize_unit(pack_unit), purchase_price |-> purchase_price,
     price_per_base_unit |->
        compute_price_per_base_unit(pack_size, pack_unit, base_unit,
                                    purchase_price).value]

\* The catalogue: 1000 g at 10.00 (0.01 per g), 1 l at 2.00, 12 units at 6.00.
Catalog ==
    [i \in IngIds |->
        CASE i = 1 -> IngredientRow("g", RInt(1000), "g", RInt(10))
          [] i = 2 -> IngredientRow("ml", RInt(1), "l", RInt(2))
          [] i = 3 -> IngredientRow("unit", RInt(12), "unit", RInt(6))]

RecipeItem(ingredient_id, quantity, unit) ==
    [ingredient_id |-> ingredient_id, quantity |-> quantity, unit |-> unit]

\* Sequences of at most n elements of S.
SeqsUpTo(S, n) == UNION {[1..k -> S] : k \in 0..n}

\* uix_recipe_ingredient: a recipe holds an ingredient at most once.
DistinctIngredients(items) ==
    \A a, b \in 1..Len(items) :
        a # b => items[a].ingredient_id # items[b].ingredient_id

\* uix_menu_recipe: a menu holds a recipe at most once.
DistinctRecipes(mis) ==
    \A a, b \in 1..Len(mis) : a # b => mis[a].recipe_id # mis[b].recipe_id

CostItems ==
    {RecipeItem(i, q, u) :
        i \in IngIds, q \in {RInt(500), RInt(2), Rat(1, 4)},
        u \in {"g", "kg", "mg", "ml", "unit", "KG"}}

CostItemSeqs == {its \in SeqsUpTo(CostItems, MaxItems) : DistinctIngredients(its)}

ServingsValues == {-1, 0, 1, 2}

NeedItems ==
    {RecipeItem(i, q, u) : i \in {1, 2}, q \in {RInt(100), RInt(3)}, u \in {"g", "ml"}}

NeedItemSeqs == {its \in SeqsUpTo(NeedItems, 2) : DistinctIngredients(its)}

BatchValues == {RInt(-2), RZero, RInt(3)}

MenuItemSeqs ==
    {mis \in SeqsUpTo({[recipe_id |-> r, batches |-> b] :
                          r \in RecipeIds, b \in BatchValues}, 2) :
        DistinctRecipes(mis)}

UnitQuantities == {RInt(-1), RZero, RInt(1), RInt(1000), Rat(1, 2)}
PurchasePrices == {RZero, RInt(10)}

NoCall == [op |-> "none"]
NoResult == [kind |-> "none"]

----------------------------------------------------------------------------
(* Pure functions of units.py and compute_price_per_base_unit, applied to  *)
(* inputs drawn by InitUnits.                                              *)

InitUnits ==
    /\ ingredients = Catalog
    /\ recipes = <<>>
    /\ menuItems = <<>>
    /\ movements = <<>>
    /\ ledger = <<>>
    /\ procs = <<>>
    /\ call \in {[op |-> "none", quantity |-> q, unit |-> u, base_unit |-> b,
                  purchase_price |-> p] :
                    q \in UnitQuantities, u \in UnitTokens, b \in UnitTokens,
                    p \in PurchasePrices}
    /\ result = NoResult

CallToBaseUnits ==
    /\ call.op = "none"
    /\ call' = [call EXCEPT !.op = "to_base_units"]
    /\ result' = to_base_units(call.quantity, call.unit, call.base_unit)
    /\ UNCHANGED <<ingredients, recipes, menuItems, movements, ledger, procs>>

CallComputePrice ==
    /\ call.op = "none"
    /\ call' = [call EXCEPT !.op = "compute_price_per_base_unit"]
    /\ result' = compute_price_per_base_unit(call.quantity, call.unit,
                                             call.base_unit, call.purchase_price)
    /\ UNCHANGED <<ingredients, recipes, menuItems, movements, ledger, procs>>

NextUnits == CallToBaseUnits \/ CallComputePrice

SpecUnits == InitUnits /\ [][NextUnits]_vars

----------------------------------------------------------------------------
(* recipe_cost applied to a recipe drawn by InitCost.                      *)

InitCost ==
    /\ ingredients = Catalog
    /\ recipes \in {[r \in {1} |-> [servings |-> s, items |-> its]] :
                        s \in ServingsValues, its \in CostItemSeqs}
    /\ menuItems = <<>>
    /\ movements = <<>>
    /\ ledger = <<>>
    /\ procs = <<>>
    /\ call = NoCall
    /\ result = NoResult

CallRecipeCost(recipe_id) ==
    /\ call.op = "none"
    /\ call' = [op |-> "recipe_cost", recipe_id |-> recipe_id]
    /\ result' = recipe_cost(recipe_id)
    /\ UNCHANGED <<ingredients, recipes, menuItems, movements, ledger, procs>>

NextCost == \E recipe_id \in RecipeIds : CallRecipeCost(recipe_id)

SpecCost == InitCost /\ [][NextCost]_vars

----------------------------------------------------------------------------
(* The needs aggregations (and recipe_cost) applied to a menu drawn by     *)
(* InitNeeds.                                                              *)

InitNeeds ==
    /\ ingredients = Catalog
    /\ recipes \in [RecipeIds -> {[servings |-> 2, items |-> its] : its \in NeedItemSeqs}]
    /\ menuItems \in MenuItemSeqs
    /\ movements = <<>>
    /\ ledger = <<>>
    /\ procs = <<>>
    /\ call = NoCall
    /\ result = NoResult

CallMenuAggregateNeeds ==
    /\ call.op = "none"
    /\ call' = [op |-> "menu_aggregate_needs"]
    /\ result' = menu_aggregate_needs(menuItems)
    /\ UNCHANGED <<ingredients, recipes, menuItems, movements, ledger, procs>>

CallMenusPageNeeds ==
    /\ call.op = "none"
    /\ call' = [op |-> "menus_page_needs"]
    /\ result' = Ok(menus_page_needs(menuItems))
    /\ UNCHANGED <<ingredients, recipes, menuItems, movements, ledger, procs>>

NextNeeds ==
    \/ CallMenuAggregateNeeds
    \/ CallMenusPageNeeds
    \/ \E recipe_id \in RecipeIds : CallRecipeCost(recipe_id)

SpecNeeds == InitNeeds /\ [][NextNeeds]_vars

----------------------------------------------------------------------------
(* The unit system as the specification states it: three families, one     *)
(* base unit each, a fixed factor per unit.  The properties below compare  *)
(* the code with these.                                                    *)

StatedFamily(base_unit) ==
    CASE base_unit = "g" -> {"mg", "g", "kg"}
      [] base_unit = "ml" -> {"ml", "l"}
      [] base_unit = "unit" -> {"unit", "un", "pcs", "piece", "pièce"}
      [] OTHER -> {}

StatedConvertible(unit, base_unit) == Lower(unit) \in StatedFamily(Lower(base_unit))

StatedFactor(unit) ==
    CASE Lower(unit) = "mg" -> Rat(1, 1000)
      [] Lower(unit) = "kg" -> RInt(1000)
      [] Lower(unit) = "l" -> RInt(1000)
      [] OTHER -> RInt(1)

StatedToBase(quantity, unit) == RMul(quantity, StatedFactor(unit))

ItemConvertible(it) == StatedConvertible(it.unit, ingredients[it.ingredient_id].base_unit)

\* Sum over the convertible items among the first n of (quantity in base
\* units) x price_per_base_unit, taken from the last item to the first.
RECURSIVE StatedCostSum(_, _)
StatedCostSum(items, n) ==
    IF n = 0 THEN RZero
    ELSE RAdd(IF ItemConvertible(items[n])
              THEN RMul(StatedToBase(items[n].quantity, items[n].unit),
                        ingredients[items[n].ingredient_id].price_per_base_unit)
              ELSE RZero,
              StatedCostSum(items, n - 1))

\* Sum over the convertible items of ingredient ing among the first n of
\* the quantity in base units, from the last item to the first.
RECURSIVE StatedItemQty(_, _, _)
StatedItemQty(items, n, ing) ==
    IF n = 0 THEN RZero
    ELSE RAdd(IF items[n].ingredient_id = ing /\ ItemConvertible(items[n])
              THEN StatedToBase(items[n].quantity, items[n].unit)
              ELSE RZero,
              StatedItemQty(items, n - 1, ing))

\* Sum over the first n menu items of (quantity of ing in the recipe) x
\* batches, from the last menu item to the first.
RECURSIVE StatedNeedsSum(_, _, _)
StatedNeedsSum(mis, n, ing) ==
    IF n = 0 THEN RZero
    ELSE RAdd(RMul(StatedItemQty(recipes[mis[n].recipe_id].items,
                                 Len(recipes[mis[n].recipe_id].items), ing),
                   mis[n].batches),
              StatedNeedsSum(mis, n - 1, ing))

AllItemsConvertible(items) == \A j \in 1..Len(items) : ItemConvertible(items[j])

AllMenuConvertible(mis) ==
    \A i \in 1..Len(mis) : AllItemsConvertible(recipes[mis[i].recipe_id].items)

UsedIngredients(mis) ==
    UNION {{recipes[mis[i].recipe_id].items[j].ingredient_id :
                j \in 1..Len(recipes[mis[i].recipe_id].items)} : i \in 1..Len(mis)}

\* The total a needs mapping gives an ingredient, 0 when it has no entry.
NeedsTotal(needs, ing) ==
    IF ing \in DOMAIN needs THEN needs[ing].total_qty_base ELSE RZero

PageNeedsTotal(needs, ing) ==
    IF ing \in DOMAIN needs THEN needs[ing].total_base ELSE RZero

RemoveAt(seq, i) == [k \in 1..(Len(seq) - 1) |-> IF k < i THEN seq[k] ELSE seq[k + 1]]

----------------------------------------------------------------------------
(* Properties of recipe_cost and of the needs aggregations.                *)

\* C1: recipe_cost returns total_cost equal to the sum over every item of
\* (quantity converted to the ingredient's base unit) x price_per_base_unit
\* and per_serving equal to total_cost / max(1, servings); a recipe whose
\* items all convert always gets a result, also with servings <= 0.
C1_RecipeCostIsSum ==
    (call.op = "recipe_cost" /\ call.recipe_id \in DOMAIN recipes) =>
        LET r == recipes[call.recipe_id]
            total == StatedCostSum(r.items, Len(r.items))
        IN  /\ AllItemsConvertible(r.items) => result.kind = "ok"
            /\ result.kind = "ok" =>
                /\ result.value.total_cost = total
                /\ result.value.per_serving =
                      RDiv(total, RInt(IF r.servings >= 1 THEN r.servings ELSE 1))

\* C1 witness: one item of 500 g at 0.01 per g, servings = 2, costs 5.00 in
\* total and 2.50 per serving.
C1_Witness ==
    /\ call.op = "recipe_cost" /\ call.recipe_id = 1
    /\ recipes[1] = [servings |-> 2, items |-> <<RecipeItem(1, RInt(500), "g")>>]
    /\ result = Ok([total_cost |-> RInt(5), per_serving |-> Rat(5, 2)])

\* C2: in recipe_cost and in the needs aggregations an item whose unit does
\* not convert to its ingredient's base unit is skipped: the call does not
\* fail and returns the sum over the convertible items (for the needs, on
\* menus whose batches are all positive).
C2_InconvertibleItemSkipped ==
    /\ (call.op = "recipe_cost" /\ call.recipe_id \in DOMAIN recipes) =>
          /\ result.kind = "ok"
          /\ result.value.total_cost =
                StatedCostSum(recipes[call.recipe_id].items,
                              Len(recipes[call.recipe_id].items))
    /\ call.op = "menu_aggregate_needs" =>
          /\ result.kind = "ok"
          /\ (\A i \in 1..Len(menuItems) : ~ RLe(menuItems[i].batches, RZero)) =>
                \A ing \in IngIds :
                    NeedsTotal(result.value, ing) =
                        StatedNeedsSum(menuItems, Len(menuItems), ing)
    /\ call.op = "menus_page_needs" =>
          /\ result.kind = "ok"
          /\ (\A i \in 1..Len(menuItems) : ~ RLe(menuItems[i].batches, RZero)) =>
                \A ing \in IngIds :
                    PageNeedsTotal(result.value, ing) =
                        StatedNeedsSum(menuItems, Len(menuItems), ing)

\* C3: menu_aggregate_needs returns, for every ingredient the menu uses, the
\* sum over the menu items and their recipe items of that ingredient of
\* (quantity in base units) x batches, whatever the iteration order (stated
\* for menus whose items all convert).
C3_NeedsAreSumTimesBatches ==
    (call.op = "menu_aggregate_needs" /\ AllMenuConvertible(menuItems)) =>
        /\ result.kind = "ok"
        /\ DOMAIN result.value = UsedIngredients(menuItems)
        /\ \A ing \in IngIds :
              NeedsTotal(result.value, ing) =
                  StatedNeedsSum(menuItems, Len(menuItems), ing)

\* C4: a menu item whose batches is <= 0 contributes nothing to the needs:
\* the totals are those of the menu without that item, in
\* menu_aggregate_needs and in the aggregation of the menus page (stated
\* for menus whose items all convert).
C4_NonPositiveBatchesContributeNothing ==
    AllMenuConvertible(menuItems) =>
        \A i \in 1..Len(menuItems) :
            RLe(menuItems[i].batches, RZero) =>
                /\ call.op = "menu_aggregate_needs" =>
                      /\ result.kind = "ok"
                      /\ \A ing \in IngIds :
                            NeedsTotal(result.value, ing) =
                                NeedsTotal(menu_aggregate_needs(
                                               RemoveAt(menuItems, i)).value, ing)
                /\ call.op = "menus_page_needs" =>
                      \A ing \in IngIds :
                          PageNeedsTotal(result.value, ing) =
                              PageNeedsTotal(menus_page_needs(RemoveAt(menuItems, i)),
                                             ing)

----------------------------------------------------------------------------
(* Properties of compute_price_per_base_unit and to_base_units.            *)

\* C8: for pack_size > 0 and a pack_unit of the base unit's family,
\* compute_price_per_base_unit returns purchase_price divided by the pack
\* size in base units, so two packs that are equal once converted get the
\* same price.
C8_PriceIsPriceOverPackInBase ==
    (/\ call.op = "compute_price_per_base_unit"
     /\ ~ RLe(call.quantity, RZero)
     /\ StatedConvertible(call.unit, call.base_unit)) =>
        /\ result = Ok(RDiv(call.purchase_price, StatedToBase(call.quantity, call.unit)))
        /\ \A q \in UnitQuantities, u \in UnitTokens :
              (/\ ~ RLe(q, RZero)
               /\ StatedConvertible(u, call.base_unit)
               /\ StatedToBase(q, u) = StatedToBase(call.quantity, call.unit)) =>
                  compute_price_per_base_unit(q, u, call.base_unit,
                                              call.purchase_price) = result

\* C8 witness: a pack of 1 kg at 10.00 of an ingredient counted in g costs
\* 0.01 per g, like the pack of 1000 g.
C8_Witness ==
    /\ call = [op |-> "compute_price_per_base_unit", quantity |-> RInt(1),
               unit |-> "kg", base_unit |-> "g", purchase_price |-> RInt(10)]
    /\ result = Ok(Rat(1, 100))
    /\ compute_price_per_base_unit(RInt(1000), "g", "g", RInt(10)) = result

\* C9: compute_price_per_base_unit raises its ValueError, and neither
\* divides by zero nor returns a price, whenever the pack size converted to
\* base units is <= 0.
C9_NonPositivePackIsAnError ==
    (/\ call.op = "compute_price_per_base_unit"
     /\ StatedConvertible(call.unit, call.base_unit)
     /\ RLe(StatedToBase(call.quantity, call.unit), RZero)) =>
        result = Raise("ValueError")

\* C9 witness: a pack of 0 kg is refused.
C9_Witness ==
    /\ call.op = "compute_price_per_base_unit"
    /\ call.quantity = RZero /\ call.unit = "kg" /\ call.base_unit = "g"
    /\ result = Raise("ValueError")

\* C10: to_base_units raises an error for every unit that is not of the
\* base unit's family (units and base units compared as the code compares
\* them, in lower case) and for every base unit other than g, ml and unit;
\* it returns a number only for a unit of the base unit's family.
C10_CrossFamilyConversionFails ==
    call.op = "to_base_units" =>
        /\ ~ StatedConvertible(call.unit, call.base_unit) =>
              result = Raise("ValueError")
        /\ Lower(call.base_unit) \notin {"g", "ml", "unit"} =>
              result = Raise("ValueError")
        /\ result.kind = "ok" => StatedConvertible(call.unit, call.base_unit)

\* C10 witness: 1 ml of an ingredient counted in g does not convert.
C10_Witness ==
    /\ call.op = "to_base_units"
    /\ call.unit = "ml" /\ call.base_unit = "g"
    /\ result = Raise("ValueError")

----------------------------------------------------------------------------
(* The stock ledger: the operations that write stock_movements.            *)

\* (ingredient, qty, unit, movement_type) of the add_stock_movement calls:
\* every movement type for quantities in g, some in kg, ml and l, and calls
\* that fail on the unit or on the movement type.
MoveInputs ==
    {<<1, q, "g", t>> : q \in {RInt(1000), RInt(200), RInt(-50)},
                        t \in {"in", "out", "adjust"}}
    \cup {<<1, RInt(1), "kg", "in">>, <<1, RInt(-1), "KG", "out">>,
          <<2, RInt(200), "ml", "in">>, <<2, RInt(-1), "l", "adjust">>,
          <<2, Rat(1, 2), "l", "out">>,
          <<1, RInt(200), "ml", "in">>, <<2, RInt(200), "g", "out">>,
          <<1, RInt(200), "g", "IN">>}

\* add_stock_movement(db, ingredient, qty, unit, movement_type): the row is
\* inserted and committed, or the ValueError leaves the table as it was.
AddStockMovementDb(ingredient_id, qty, unit, movement_type) ==
    /\ ingredient_id \in DOMAIN ingredients
    /\ Len(movements) < MaxMovements
    /\ LET row == StockMovementRow(ingredient_id, qty, unit, movement_type)
       IN  /\ result' = row
           /\ movements' = IF row.kind = "ok" THEN DbInsert(movements, row.value)
                           ELSE movements
    /\ call' = [op |-> "add_stock_movement"]
    /\ UNCHANGED <<ingredients, recipes, menuItems, procs>>

\* add_stock_movement, the arguments of a successful call kept in ledger.
AddStockMovement(ingredient_id, qty, unit, movement_type) ==
    /\ AddStockMovementDb(ingredient_id, qty, unit, movement_type)
    /\ ledger' = IF StockMovementRow(ingredient_id, qty, unit, movement_type).kind = "ok"
                 THEN Append(ledger,
                             [ingredient_id |-> ingredient_id, qty |-> qty,
                              unit |-> unit, movement_type |-> movement_type])
                 ELSE ledger

\* current_stock_map(db)
CallCurrentStockMap ==
    /\ call' = [op |-> "current_stock_map"]
    /\ result' = Ok(current_stock_map(movements))
    /\ UNCHANGED <<ingredients, recipes, menuItems, movements, ledger, procs>>

InitLedger ==
    /\ ingredients = Catalog
    /\ recipes = <<>>
    /\ menuItems = <<>>
    /\ movements = <<>>
    /\ ledger = <<>>
    /\ procs = <<>>
    /\ call = NoCall
    /\ result = NoResult

NextLedger ==
    \/ \E m \in MoveInputs : AddStockMovement(m[1], m[2], m[3], m[4])
    \/ CallCurrentStockMap

SpecLedger == InitLedger /\ [][NextLedger]_vars

\* The signed quantity the specification gives a movement: +|amount| for
\* "in", -|amount| for "out", the amount as given for "adjust".
StatedSigned(c) ==
    LET amount == StatedToBase(c.qty, c.unit)
    IN  CASE c.movement_type = "in" -> RAbs(amount)
          [] c.movement_type = "out" -> RNeg(RAbs(amount))
          [] c.movement_type = "adjust" -> amount

\* Sum of the stated signed quantities of the first n calls for ingredient
\* ing, from the last call to the first.
RECURSIVE StatedStock(_, _, _)
StatedStock(calls, n, ing) ==
    IF n = 0 THEN RZero
    ELSE RAdd(IF calls[n].ingredient_id = ing THEN StatedSigned(calls[n]) ELSE RZero,
              StatedStock(calls, n - 1, ing))

StockOf(stock, ing) == IF ing \in DOMAIN stock THEN stock[ing] ELSE RZero

\* C5: after any sequence of successful add_stock_movement calls,
\* current_stock_map gives each ingredient the sum over its movements of the
\* quantity in base units, +|amount| for "in", -|amount| for "out" and the
\* signed amount for "adjust"; it has an entry exactly for the ingredients
\* that have a movement.
C5_StockIsSignedSum ==
    LET stock == current_stock_map(movements)
    IN  /\ Len(movements) = Len(ledger)
        /\ DOMAIN stock = {ledger[k].ingredient_id : k \in 1..Len(ledger)}
        /\ \A ing \in IngIds :
              StockOf(stock, ing) = StatedStock(ledger, Len(ledger), ing)
        /\ call.op = "current_stock_map" => result = Ok(stock)

\* C5 witness: in 1000 g, out 200 g, adjust -50 g leave 750 g.
C5_Witness ==
    /\ ledger = <<[ingredient_id |-> 1, qty |-> RInt(1000), unit |-> "g",
                   movement_type |-> "in"],
                  [ingredient_id |-> 1, qty |-> RInt(200), unit |-> "g",
                   movement_type |-> "out"],
                  [ingredient_id |-> 1, qty |-> RInt(-50), unit |-> "g",
                   movement_type |-> "adjust"]>>
    /\ call.op = "current_stock_map"
    /\ result = Ok(<<RInt(750)>>)

----------------------------------------------------------------------------
(* Concurrent add_stock_movement calls, each in its own session.  A call   *)
(* computes its row from its arguments (lines 58-73: to_base_units, the    *)
(* movement_type check, the sign, db.add) and then commits it (line 74);   *)
(* other calls may run between the two.                                    *)

IdleProc == [pc |-> "idle"]

InitConcurrent ==
    /\ ingredients = Catalog
    /\ recipes = <<>>
    /\ menuItems = <<>>
    /\ movements = <<>>
    /\ ledger = <<>>
    /\ procs = [p \in 1..NProcs |-> IdleProc]
    /\ call = NoCall
    /\ result = NoResult

AsmCall(p, ingredient_id, qty, unit, movement_type) ==
    /\ procs[p].pc = "idle"
    /\ ingredient_id \in DOMAIN ingredients
    /\ procs' = [procs EXCEPT ![p] =
                    [pc |-> "called", ingredient_id |-> ingredient_id, qty |-> qty,
                     unit |-> unit, movement_type |-> movement_type]]
    /\ UNCHANGED <<ingredients, recipes, menuItems, movements, ledger, call, result>>

AsmPrepare(p) ==
    /\ procs[p].pc = "called"
    /\ LET a == procs[p]
           row == StockMovementRow(a.ingredient_id, a.qty, a.unit, a.movement_type)
       IN  procs' = [procs EXCEPT ![p] =
                        IF row.kind = "ok"
                        THEN [pc |-> "pending", ingredient_id |-> a.ingredient_id,
                              qty |-> a.qty, unit |-> a.unit,
                              movement_type |-> a.movement_type, row |-> row.value]
                        ELSE [pc |-> "failed", ingredient_id |-> a.ingredient_id,
                              qty |-> a.qty, unit |-> a.unit,
                              movement_type |-> a.movement_type]]
    /\ UNCHANGED <<ingredients, recipes, menuItems, movements, ledger, call, result>>

AsmCommit(p) ==
    /\ procs[p].pc = "pending"
    /\ movements' = DbInsert(movements, procs[p].row)
    /\ procs' = [procs EXCEPT ![p] = [@ EXCEPT !.pc = "done"]]
    /\ UNCHANGED <<ingredients, recipes, menuItems, ledger, call, result>>

NextConcurrent ==
    \E p \in 1..NProcs :
        \/ \E m \in MoveInputs : AsmCall(p, m[1], m[2], m[3], m[4])
        \/ AsmPrepare(p)
        \/ AsmCommit(p)

SpecConcurrent == InitConcurrent /\ [][NextConcurrent]_vars

\* Sum of the stated signed quantities of the calls among the first n that
\* have committed a movement of ingredient ing.
RECURSIVE StatedCommitted(_, _)
StatedCommitted(n, ing) ==
    IF n = 0 THEN RZero
    ELSE RAdd(IF procs[n].pc = "done" /\ procs[n].ingredient_id = ing
              THEN StatedSigned(procs[n]) ELSE RZero,
              StatedCommitted(n - 1, ing))

\* C7: however add_stock_movement calls interleave, current_stock_map gives
\* each ingredient the sum of the signed base quantities of the calls that
\* have committed, and stock_movements holds one row per committed call: no
\* movement is lost, in particular once every call has ended.
C7_InterleavedMovementsAllCounted ==
    /\ Len(movements) = Cardinality({p \in 1..NProcs : procs[p].pc = "done"})
    /\ \A ing \in IngIds :
          StockOf(current_stock_map(movements), ing) = StatedCommitted(NProcs, ing)

\* C7 witness: two calls for the same ingredient have both committed, the
\* second one first; the stock is 1000 - 200.
C7_Witness ==
    /\ procs[1].pc = "done" /\ procs[2].pc = "done"
    /\ procs[1].ingredient_id = 1 /\ procs[1].qty = RInt(1000)
    /\ procs[1].movement_type = "in" /\ procs[1].unit = "g"
    /\ procs[2].ingredient_id = 1 /\ procs[2].qty = RInt(200)
    /\ procs[2].movement_type = "out" /\ procs[2].unit = "g"
    /\ Len(movements) = 2
    /\ movements[1] = procs[2].row
    /\ movements[2] = procs[1].row
    /\ current_stock_map(movements)[1] = RInt(800)

----------------------------------------------------------------------------
(* The application: every operation that writes stock_movements or the     *)
(* ingredients its rows refer to.                                          *)

AppMoveInputs ==
    {<<1, RInt(200), "g", "in">>, <<1, RInt(-50), "g", "adjust">>,
     <<2, RInt(200), "ml", "out">>, <<1, RInt(200), "ml", "in">>}

\* (ingredient, base unit, pack size, pack unit, purchase price) of the
\* ingredient form; the form offers only the pack units of the base unit.
SaveInputs ==
    {<<1, "g", RInt(1), "kg", RInt(10)>>, <<1, "ml", RInt(1), "l", RInt(2)>>,
     <<1, "g", RZero, "g", RInt(10)>>}

\* (ingredient, qty, unit, type) of the movement form of the inventory page
\* of acpof_pages.
PageMoveInputs == {<<1, RInt(2), "kg", "IN">>, <<2, RInt(200), "ml", "OUT">>}

InitApp ==
    /\ ingredients = Catalog
    /\ recipes = <<>>
    /\ menuItems = <<>>
    /\ movements = <<>>
    /\ ledger = <<>>
    /\ procs = <<>>
    /\ call = NoCall
    /\ result = NoResult

\* pages/inventory.py, "Ajouter": add_stock_movement.
AppAddStockMovement(ingredient_id, qty, unit, movement_type) ==
    /\ AddStockMovementDb(ingredient_id, qty, unit, movement_type)
    /\ UNCHANGED ledger

\* acpof_pages/inventory.py, "Enregistrer le mouvement": the row keeps the
\* quantity and the unit as entered, quantity_base stays at its default.
InventoryPageSave(ingredient_id, qty, unit, move_type) ==
    /\ ingredient_id \in DOMAIN ingredients
    /\ Len(movements) < MaxMovements
    /\ movements' = DbInsert(movements,
                             Movement(ingredient_id, qty, normalize_unit(unit),
                                      RZero, move_type))
    /\ call' = [op |-> "inventory_page_save"]
    /\ result' = Ok("saved")
    /\ UNCHANGED <<ingredients, recipes, menuItems, ledger, procs>>

\* sheets_sync.import_table_to_db(db, "stock_movements").  A sheet that
\* holds only the header: DELETE FROM stock_movements, commit.  A sheet with
\* rows: the DELETE, then an INSERT that names the column "notes", which the
\* table does not have (db.py: the column is "note", init_db renames an old
\* "notes"), so the INSERT raises and the callers catch the error without a
\* rollback; whether the DELETE is then committed by the next commit of the
\* session or dropped with it is either.
ImportStockMovements(has_rows, delete_committed) ==
    /\ call' = [op |-> "import_table_to_db"]
    /\ IF ~ has_rows
       THEN /\ movements' = <<>>
            /\ result' = Ok(0)
       ELSE /\ movements' = IF delete_committed THEN <<>> ELSE movements
            /\ result' = Raise("OperationalError")
    /\ UNCHANGED <<ingredients, recipes, menuItems, ledger, procs>>

\* pages/ingredients.py, "Enregistrer": the price is computed first; its
\* ValueError is reported and nothing is written; else the ingredient of
\* that name is updated or created.
SaveIngredient(ingredient_id, base_unit, pack_size, pack_unit, purchase_price) ==
    /\ call' = [op |-> "save_ingredient"]
    /\ LET price == compute_price_per_base_unit(pack_size, pack_unit, base_unit,
                                                purchase_price)
       IN  IF price.kind # "ok"
           THEN /\ result' = price
                /\ UNCHANGED ingredients
           ELSE /\ result' = Ok("saved")
                /\ ingredients' =
                      [k \in DOMAIN ingredients \cup {ingredient_id} |->
                          IF k = ingredient_id
                          THEN IngredientRow(base_unit, pack_size, pack_unit,
                                             purchase_price)
                          ELSE ingredients[k]]
    /\ UNCHANGED <<recipes, menuItems, movements, ledger, procs>>

\* A delete that takes the movements of the ingredient with it.
MovementsCascadeDelete(table, ingredient_id) ==
    SelectSeq(table, LAMBDA m : m.ingredient_id # ingredient_id)

\* db.delete(ingredient): StockMovement.ingredient is a plain relationship,
\* without cascade and without a collection on Ingredient, so the rows of
\* stock_movements stay.
MovementsAfterIngredientDelete(table, ingredient_id) == table

\* pages/ingredients.py, "Supprimer définitivement".  With foreign keys
\* enforced (PostgreSQL) the delete of an ingredient that has movements
\* fails; SQLite as configured in db.py does not enforce them.
DeleteIngredient(ingredient_id, fk_enforced) ==
    /\ ingredient_id \in DOMAIN ingredients
    /\ call' = [op |-> "delete_ingredient"]
    /\ IF fk_enforced /\ \E k \in 1..Len(movements) :
                            movements[k].ingredient_id = ingredient_id
       THEN /\ result' = Raise("IntegrityError")
            /\ UNCHANGED <<ingredients, movements>>
       ELSE /\ result' = Ok("deleted")
            /\ ingredients' = [k \in DOMAIN ingredients \ {ingredient_id} |->
                                  ingredients[k]]
            /\ movements' = MovementsAfterIngredientDelete(movements, ingredient_id)
    /\ UNCHANGED <<recipes, menuItems, ledger, procs>>

Next ==
    \/ \E m \in AppMoveInputs : AppAddStockMovement(m[1], m[2], m[3], m[4])
    \/ \E m \in PageMoveInputs : InventoryPageSave(m[1], m[2], m[3], m[4])
    \/ \E has_rows, delete_committed \in BOOLEAN :
          ImportStockMovements(has_rows, delete_committed)
    \/ \E f \in SaveInputs : SaveIngredient(f[1], f[2], f[3], f[4], f[5])
    \/ \E fk_enforced \in BOOLEAN : DeleteIngredient(1, fk_enforced)

Spec == InitApp /\ [][Next]_vars

\* Every row of a table is still there, unchanged and in its place.
IsPrefix(a, b) == Len(a) <= Len(b) /\ \A k \in 1..Len(a) : a[k] = b[k]

----------------------------------------------------------------------------
(* acpof_pages/imports/import_data.py: cleaning of unit text, unit         *)
(* families, _reconcile_units.                                             *)

\* The raw unit texts the model draws from: empty, the units of units.py,
\* an imperial unit and its plural, packaging words with and without
\* accents, words of the synonym table, count abbreviations of units.py,
\* upper case, surrounding blanks, a quote, a leading "/" or "- ", and a
\* token nothing recognizes.
RawUnits ==
    {"", "g", "kg", "mg", "lb", "lbs", "ml", "l", "unit", "caisse", "boîte",
     "pièce", "litre", "pcs", "KG", "L", " KG ", "'kg", "/g", "- kg", "oz"}

\* str.strip() on the texts above.
Strip(s) == CASE s = " KG " -> "KG" [] OTHER -> s

\* NFKD decomposition, then the combining marks dropped.
StripAccents(s) ==
    CASE s = "boîte" -> "boite"
      [] s = "pièce" -> "piece"
      [] OTHER -> s

\* The three replace() calls that drop quote characters.
DropQuotes(s) == CASE s = "'kg" -> "kg" [] OTHER -> s

\* re.sub(r"^[\/\-–—\s]+", "", s), then the blanks collapsed and
\* stripped.
DropLeadingPunctuation(s) ==
    CASE s = "/g" -> "g"
      [] s = "- kg" -> "kg"
      [] OTHER -> s

\* synonyms.get(s, s)
Synonyms(s) ==
    CASE s \in {"unite", "u", "piece", "pc", "pz", "portion", "paquet",
                "caisse", "boite", "boîte", "bte", "sac", "sachet"} -> "unit"
      [] s \in {"litre", "liter"} -> "l"
      [] s \in {"millilitre", "milliliter"} -> "ml"
      [] s = "gramme" -> "g"
      [] s = "kilogramme" -> "kg"
      [] s = "lbs" -> "lb"
      [] OTHER -> s

\* _clean_unit_text(s)
_clean_unit_text(s) ==
    Synonyms(DropLeadingPunctuation(DropQuotes(StripAccents(Lower(Strip(s))))))

_UNIT_COUNT ==
    {"unit", "unite", "u", "piece", "pièce", "pc", "pz", "portion", "paquet",
     "caisse", "boite", "boîte", "bte", "sac", "sachet"}
_UNIT_MASS == {"g", "kg", "lb"}
_UNIT_VOL == {"ml", "l"}

\* _unit_family(u); "None" stands for Python's None.
_unit_family(u) ==
    IF u = "" THEN "None"
    ELSE IF u \in _UNIT_COUNT THEN "count"
    ELSE IF u \in _UNIT_MASS THEN "mass"
    ELSE IF u \in _UNIT_VOL THEN "vol"
    ELSE "None"

\* A canonicalization that keeps the unit it was given when the unit has a
\* family.
CanonBaseUnitKeepsUnit(u) ==
    IF _unit_family(u) = "None" THEN "" ELSE u

\* _canon_base_unit(u)
_canon_base_unit(u) ==
    LET fam == _unit_family(u)
    IN  IF fam = "mass" THEN "g"
        ELSE IF fam = "vol" THEN "ml"
        ELSE IF fam = "count" THEN "unit"
        ELSE ""

\* The locals of _reconcile_units after its first statements: b stands for
\* base_u_c, bf for base_f, p for pack_u, pf for pack_f.
ReconcileLocals(base_u, pack_u) ==
    [b |-> _canon_base_unit(base_u), p |-> pack_u,
     pf |-> _unit_family(pack_u),
     bf |-> _unit_family(_canon_base_unit(base_u))]

\* "if not base_u_c": the base from the pack unit, else "unit".
BaseMissing(s) ==
    IF s.b = ""
    THEN IF s.pf # "None"
         THEN [s EXCEPT !.b = _canon_base_unit(s.p),
                        !.bf = _unit_family(_canon_base_unit(s.p))]
         ELSE [s EXCEPT !.b = "unit", !.bf = "count"]
    ELSE s

\* "if not pack_u": pack = base.
PackEmpty(s) == IF s.p = "" THEN [s EXCEPT !.p = s.b, !.pf = s.bf] ELSE s

\* pack count and base mass or vol: pack = base.
PackCount(s) ==
    IF s.pf = "count" /\ s.bf \in {"mass", "vol"}
    THEN [s EXCEPT !.p = s.b, !.pf = s.bf]
    ELSE s

\* base count and pack mass or vol: the base from the pack unit.
BaseCount(s) ==
    IF s.bf = "count" /\ s.pf \in {"mass", "vol"}
    THEN [s EXCEPT !.b = _canon_base_unit(s.p),
                   !.bf = _unit_family(_canon_base_unit(s.p))]
    ELSE s

\* base mass and pack vol, or the reverse: the base from the pack unit.
FamiliesDiffer(s) ==
    IF s.bf \in {"mass", "vol"} /\ s.pf \in {"mass", "vol"} /\ s.bf # s.pf
    THEN [s EXCEPT !.b = _canon_base_unit(s.p),
                   !.bf = _unit_family(_canon_base_unit(s.p))]
    ELSE s

\* The final normalization: <<norm_base, norm_pack>>.
ReconcileNormalize(s) ==
    <<IF s.b # "" THEN normalize_unit(s.b) ELSE "unit",
      IF s.p # "" THEN normalize_unit(s.p)
      ELSE IF s.b # "" THEN normalize_unit(s.b) ELSE "unit">>

\* _reconcile_units(base_u, pack_u, pack_size): the statements above in
\* the order of the function, each applied to the locals the one before
\* left (the one element of the set it ranges over).
_reconcile_units(base_u, pack_u, pack_size) ==
    CHOOSE pair \in
        {ReconcileNormalize(s5) : s5 \in
        {FamiliesDiffer(s4) : s4 \in
        {BaseCount(s3) : s3 \in
        {PackCount(s2) : s2 \in
        {PackEmpty(s1) : s1 \in
        {BaseMissing(s0) : s0 \in
        {ReconcileLocals(_clean_unit_text(base_u), _clean_unit_text(pack_u))}}}}}}} :
        TRUE

----------------------------------------------------------------------------
(* _reconcile_units applied to a pair of raw unit texts drawn by           *)
(* InitReconcile.                                                          *)

InitReconcile ==
    /\ ingredients = Catalog
    /\ recipes = <<>>
    /\ menuItems = <<>>
    /\ movements = <<>>
    /\ ledger = <<>>
    /\ procs = <<>>
    /\ call \in {[op |-> "none", base_u |-> b, pack_u |-> p] :
                    b \in RawUnits, p \in RawUnits}
    /\ result = NoResult

CallReconcileUnits ==
    /\ call.op = "none"
    /\ call' = [call EXCEPT !.op = "_reconcile_units"]
    /\ result' = Ok(_reconcile_units(call.base_u, call.pack_u, RInt(1)))
    /\ UNCHANGED <<ingredients, recipes, menuItems, movements, ledger, procs>>

NextReconcile == CallReconcileUnits

SpecReconcile == InitReconcile /\ [][NextReconcile]_vars

----------------------------------------------------------------------------
(* Properties of _reconcile_units.  The families of the raw texts are the  *)
(* ones the specification's unit system gives them: mg, g, kg and lb are   *)
(* masses, ml and l volumes, "unit", its abbreviations and the packaging   *)
(* words counts; the empty text and "oz" have no family.                   *)

StatedRawFamily(raw) ==
    CASE raw \in {"g", "kg", "mg", "lb", "lbs", "KG", " KG ", "'kg", "/g",
                  "- kg"} -> "mass"
      [] raw \in {"ml", "l", "litre", "L"} -> "vol"
      [] raw \in {"unit", "caisse", "boîte", "pièce", "pcs"} -> "count"
      [] OTHER -> "none"

StatedBaseOfFamily(fam) ==
    CASE fam = "mass" -> "g"
      [] fam = "vol" -> "ml"
      [] OTHER -> "unit"

Reconciled == call.op = "_reconcile_units" /\ result.kind = "ok"

\* C15: for every pair of raw inputs (missing, synonym, unknown token, a
\* mass unit such as "mg" or "lb"), the pair _reconcile_units returns is
\* mutually convertible: to_base_units(x, pack unit, base unit) succeeds.
C15_ReconciledPairConvertible ==
    Reconciled =>
        to_base_units(RInt(1), result.value[2], result.value[1]).kind = "ok"

\* C16: for every pair of raw inputs the base unit _reconcile_units returns
\* is one of "g", "ml", "unit".
C16_ReconciledBaseIsCanonical ==
    Reconciled => result.value[1] \in {"g", "ml", "unit"}

\* C16 witness: an unknown base with an unknown pack unit, and a mass base
\* given in pounds with a count pack unit, have been reconciled.
C16_Witness ==
    /\ Reconciled
    /\ \/ call.base_u = "oz" /\ call.pack_u = "oz" /\ result.value[1] = "unit"
       \/ call.base_u = "lbs" /\ call.pack_u = "caisse" /\ result.value[1] = "g"

\* C17: with an empty or unknown base, the base returned is the base unit
\* of the pack unit's family when the pack unit has one, otherwise "unit";
\* an empty pack unit becomes the base returned; ("", "kg") gives
\* ("g", "kg") and ("", "") gives ("unit", "unit").
C17_MissingBaseDerivedFromPack ==
    (Reconciled /\ StatedRawFamily(call.base_u) = "none") =>
        /\ result.value[1] =
              IF StatedRawFamily(call.pack_u) # "none"
              THEN StatedBaseOfFamily(StatedRawFamily(call.pack_u))
              ELSE "unit"
        /\ call.pack_u = "" => result.value[2] = result.value[1]
        /\ (call.base_u = "" /\ call.pack_u = "kg") => result.value = <<"g", "kg">>
        /\ (call.base_u = "" /\ call.pack_u = "") => result.value = <<"unit", "unit">>

\* C18: whenever the pack unit's family is count and the base unit's
\* family is mass or volume, the pack unit returned equals the base unit
\* returned and the base is the base unit of its own family; ("kg",
\* "caisse") gives ("g", "g").
C18_CountPackTakesBase ==
    (/\ Reconciled
     /\ StatedRawFamily(call.pack_u) = "count"
     /\ StatedRawFamily(call.base_u) \in {"mass", "vol"}) =>
        /\ result.value[2] = result.value[1]
        /\ result.value[1] = StatedBaseOfFamily(StatedRawFamily(call.base_u))

\* C19: whenever the pack unit is a mass or a volume and the base has
\* another family (count, or the other of the two), the base returned is
\* the base unit of the pack unit's family and the pack unit is kept as
\* supplied.
C19_PackWins ==
    (/\ Reconciled
     /\ StatedRawFamily(call.pack_u) \in {"mass", "vol"}
     /\ StatedRawFamily(call.base_u) \notin {"none", StatedRawFamily(call.pack_u)}) =>
        /\ result.value[1] = StatedBaseOfFamily(StatedRawFamily(call.pack_u))
        /\ result.value[2] = normalize_unit(_clean_unit_text(call.pack_u))

----------------------------------------------------------------------------
(* acpof_pages/imports/import_data.py: _coerce_float.                      *)
(*                                                                         *)
(* A cell of a data frame is NaN (an empty cell), a number (a cell of a    *)
(* column pandas read as numeric) or a text.  A text is a sequence of      *)
(* characters, each a string; "NBSP", "NNBSP", "EMDASH", "EURO" and "POUND" *)
(* stand for U+00A0, U+202F, the em dash, the euro and the pound signs.    *)
(* The texts drawn hold no letter "e" and none of the words "inf" and      *)
(* "nan", which float() also reads.                                        *)

NaN == [kind |-> "nan"]
Num(r) == [kind |-> "num", value |-> r]
Text(chars) == [kind |-> "text", chars |-> chars]

\* Python's None as a returned value.
None == [none |-> TRUE]
IsNone(x) == "none" \in DOMAIN x

DigitChars == <<"0", "1", "2", "3", "4", "5", "6", "7", "8", "9">>
IsDigit(c) == \E d \in 1..10 : DigitChars[d] = c
DigitVal(c) == (CHOOSE d \in 1..10 : DigitChars[d] = c) - 1

\* str.isspace() and the class \s on the characters drawn.
IsSpace(c) == c \in {" ", "NBSP", "NNBSP"}

\* str.lower() on one character.
LowerChar(c) ==
    CASE c = "A" -> "a" [] c = "C" -> "c" [] c = "D" -> "d" [] c = "N" -> "n"
      [] c = "O" -> "o" [] c = "S" -> "s" [] c = "U" -> "u"
      [] c = "K" -> "k" [] c = "G" -> "g" [] c = "L" -> "l" [] OTHER -> c

LowerText(t) == [i \in 1..Len(t) |-> LowerChar(t[i])]

\* str.strip(): from the first character that is no blank to the last.
StripText(t) ==
    IF \A i \in 1..Len(t) : IsSpace(t[i]) THEN <<>>
    ELSE SubSeq(t,
                CHOOSE i \in 1..Len(t) :
                    ~ IsSpace(t[i]) /\ \A j \in 1..(i - 1) : IsSpace(t[j]),
                CHOOSE i \in 1..Len(t) :
                    ~ IsSpace(t[i]) /\ \A j \in (i + 1)..Len(t) : IsSpace(t[j]))

\* The text without the characters of S.
Without(t, S) == SelectSeq(t, LAMBDA c : c \notin S)

\* str.rfind(c) + 1: the last position of c, 0 when there is none.
RFind(t, c) ==
    IF \E i \in 1..Len(t) : t[i] = c
    THEN CHOOSE i \in 1..Len(t) : t[i] = c /\ \A j \in (i + 1)..Len(t) : t[j] # c
    ELSE 0

Has(t, c) == \E i \in 1..Len(t) : t[i] = c

\* str.replace(a, b) for single characters.
ReplaceChar(t, a, b) == [i \in 1..Len(t) |-> IF t[i] = a THEN b ELSE t[i]]

\* re.sub(r"(cad|usd|eur)$", "", txt, flags=re.IGNORECASE)
DropCurrencyCode(t) ==
    IF Len(t) >= 3
       /\ LowerText(SubSeq(t, Len(t) - 2, Len(t)))
            \in {<<"c", "a", "d">>, <<"u", "s", "d">>, <<"e", "u", "r">>}
    THEN SubSeq(t, 1, Len(t) - 3)
    ELSE t

RECURSIVE Pow10(_)
Pow10(n) == IF n = 0 THEN 1 ELSE 10 * Pow10(n - 1)

\* The number the first n characters of a string of digits denote.
RECURSIVE DigitsValue(_, _)
DigitsValue(t, n) ==
    IF n = 0 THEN 0 ELSE 10 * DigitsValue(t, n - 1) + DigitVal(t[n])

\* float(txt) on a text without blanks: an optional sign, then digits with
\* at most one point and at least one digit; anything else is a ValueError.
PyFloat(t) ==
    LET signed == t # <<>> /\ t[1] \in {"+", "-"}
        body == IF signed THEN Tail(t) ELSE t
        digits == Without(body, {"."})
        dot == RFind(body, ".")
        decimals == IF dot = 0 THEN 0 ELSE Len(body) - dot
        magnitude == Rat(DigitsValue(digits, Len(digits)), Pow10(decimals))
    IN  IF /\ digits # <<>>
           /\ \A i \in 1..Len(digits) : IsDigit(digits[i])
           /\ Len(body) - Len(digits) <= 1
        THEN Ok(IF signed /\ t[1] = "-" THEN RNeg(magnitude) ELSE magnitude)
        ELSE Raise("ValueError")

Placeholders ==
    {<<"-">>, <<"EMDASH">>, <<"n", "a">>, <<"n", "/", "a">>, <<"n", "d">>,
     <<"s", "/", "o">>, <<"s", ".", "o", ".">>, <<"n", "u", "l", "l">>,
     <<"n", "o", "n", "e">>}

\* A reading that takes every "," for a thousands separator.
SeparatorsCommaIsThousands(t) == Without(t, {","})

\* The separators of a text that holds both "," and ".": the rightmost of
\* the two is the decimal point, the other is dropped; a text with only
\* "," has it for decimal point.
Separators(t) ==
    IF Has(t, ",") /\ Has(t, ".")
    THEN IF RFind(t, ",") > RFind(t, ".")
         THEN ReplaceChar(Without(t, {"."}), ",", ".")
         ELSE Without(t, {","})
    ELSE IF Has(t, ",") /\ ~ Has(t, ".")
         THEN ReplaceChar(t, ",", ".")
         ELSE t

\* The except branch: every character that is not a digit, ".", "-" or "+"
\* is dropped; an empty residual, a lone point or a signed lone point is
\* None, the rest is read by float() or is a ValueError.
CoerceFallback(t) ==
    CHOOSE r \in
        {IF txt2 \in {<<>>, <<".">>, <<"-", ".">>, <<"+", ".">>} THEN Ok(None)
         ELSE PyFloat(txt2) :
            txt2 \in {SelectSeq(t, LAMBDA c : IsDigit(c) \/ c \in {".", "-", "+"})}} :
        TRUE

\* The end of _coerce_float, on the text with its separators settled.
CoerceNumber(txt) ==
    IF txt \in {<<>>, <<".">>, <<"-", ".">>, <<"+", ".">>} THEN Ok(None)
    ELSE IF PyFloat(txt).kind = "ok" THEN PyFloat(txt)
    ELSE CoerceFallback(txt)

\* _coerce_float on the stripped text of a cell: placeholders, then blanks,
\* currency signs, the currency code and "%" dropped, then the separators.
CoerceText(txt) ==
    IF txt = <<>> THEN Ok(None)
    ELSE IF LowerText(txt) \in Placeholders THEN Ok(None)
    ELSE CHOOSE r \in
            {CoerceNumber(settled) : settled \in
            {Separators(bare) : bare \in
            {Without(DropCurrencyCode(
                         Without(Without(txt, {" ", "NBSP", "NNBSP"}),
                                 {"$", "EURO", "POUND"})),
                     {"%"})}}} : TRUE

\* _coerce_float(value): Ok(None), Ok(a number) or ValueError.
_coerce_float(value) ==
    IF value.kind = "nan" THEN Ok(None)
    ELSE IF value.kind = "num" THEN Ok(value.value)
    ELSE CHOOSE r \in {CoerceText(txt) : txt \in {StripText(value.chars)}} : TRUE

\* _coerce_str(value) on a cell that holds a unit or a name: "" for NaN,
\* else the text stripped.
_coerce_str(value) == IF value = "NaN" THEN "" ELSE Strip(value)

----------------------------------------------------------------------------
(* acpof_pages/imports/import_data.py: the CSV import of ingredients.      *)
(*                                                                         *)
(* An ingredient is known by its name; the model names ingredients by      *)
(* their number, 0 standing for an empty name cell.  A supplier is known   *)
(* by its name, "" standing for an empty supplier cell (supplier_id NULL). *)

\* compute_price_per_base_unit of acpof_pages/logic.py, as the
\* specification states it: purchase price over the pack size converted to
\* the base unit, an error when the pack size is not positive or the
\* conversion is impossible.
acpof_compute_price_per_base_unit(pack_size, pack_unit, base_unit, purchase_price) ==
    IF ~ StatedConvertible(pack_unit, base_unit) THEN Raise("ValueError")
    ELSE IF RLe(StatedToBase(pack_size, pack_unit), RZero) THEN Raise("ValueError")
    ELSE Ok(RDiv(purchase_price, StatedToBase(pack_size, pack_unit)))

\* "x or default" on a float or None.
OrDefault(x, default) == IF IsNone(x) THEN default ELSE IF RIsZero(x) THEN default ELSE x

\* _coerce_float(row.get("pack_size")) or 1.0
PackSizeOrDefault(x) == OrDefault(x, RInt(1))

\* One turn of the loop of _parse_ingredient_rows: the row is skipped (no
\* name), an error (an exception of the row) or an entry.
ParseIngredientRow(row, line_no) ==
    IF row.name = 0 THEN [kind |-> "skipped", line |-> line_no]
    ELSE
        LET size == _coerce_float(row.pack_size)
            price == _coerce_float(row.purchase_price)
        IN  IF size.kind # "ok" THEN [kind |-> "error", line |-> line_no]
            ELSE IF price.kind # "ok" THEN [kind |-> "error", line |-> line_no]
            ELSE
                LET pack_size == PackSizeOrDefault(size.value)
                    purchase_price == OrDefault(price.value, RZero)
                    units == _reconcile_units(_coerce_str(row.base_unit),
                                              _coerce_str(row.pack_unit), pack_size)
                    base_unit == IF units[1] = "" THEN "unit" ELSE units[1]
                    pack_unit == IF units[2] = "" THEN base_unit ELSE units[2]
                    computed == acpof_compute_price_per_base_unit(
                                    pack_size, pack_unit, base_unit, purchase_price)
                    price_per_base == IF computed.kind = "ok" THEN computed.value
                                      ELSE RZero
                IN  [kind |-> "entry", line |-> line_no,
                     entry |-> [name |-> row.name, base_unit |-> base_unit,
                                pack_size |-> pack_size, pack_unit |-> pack_unit,
                                purchase_price |-> purchase_price,
                                price_per_base_unit |-> price_per_base,
                                supplier |-> _coerce_str(row.supplier),
                                supplier_code |-> _coerce_str(row.supplier_code)]]

\* The lines of the parsed rows of one kind ("error", "skipped").
LinesOf(parsed, kind) ==
    LET rows == SelectSeq(parsed, LAMBDA r : r.kind = kind)
    IN  [k \in 1..Len(rows) |-> rows[k].line]

\* entries.append(...): the payloads of the rows that parsed.
EntriesOf(parsed) ==
    LET rows == SelectSeq(parsed, LAMBDA r : r.kind = "entry")
    IN  [k \in 1..Len(rows) |-> rows[k].entry]

\* _parse_ingredient_rows(df), the required columns present: the entries,
\* and the errors as the lines they name; the skipped lines come last, in
\* one message.
_parse_ingredient_rows(df) ==
    CHOOSE out \in
        {[entries |-> EntriesOf(parsed),
          errors |-> LinesOf(parsed, "error"),
          skipped |-> LinesOf(parsed, "skipped")] :
            parsed \in {[k \in 1..Len(df) |-> ParseIngredientRow(df[k], k + 1)]}} :
        TRUE

\* The supplier and the supplier code of a row of ingredients; a row saved
\* by the ingredients page with "(aucun)" has no supplier.
SupplierOf(row) == IF "supplier" \in DOMAIN row THEN row.supplier ELSE ""
SupplierCodeOf(row) == IF "supplier_code" \in DOMAIN row THEN row.supplier_code ELSE ""

\* uix_supplier_code: no two ingredients of one supplier with the same
\* supplier code; rows without supplier (NULL) never collide.
SupplierCodesUnique(table) ==
    \A i, j \in DOMAIN table :
        (i # j /\ SupplierOf(table[i]) # "" /\ SupplierOf(table[i]) = SupplierOf(table[j]))
            => SupplierCodeOf(table[i]) # SupplierCodeOf(table[j])

\* The assignments of one payload to the ingredient of its name, created
\* when there is none.
ApplyPayload(table, payload) ==
    [k \in DOMAIN table \cup {payload.name} |->
        IF k = payload.name
        THEN [base_unit |-> payload.base_unit, pack_size |-> payload.pack_size,
              pack_unit |-> payload.pack_unit,
              purchase_price |-> payload.purchase_price,
              price_per_base_unit |-> payload.price_per_base_unit,
              supplier |-> payload.supplier,
              supplier_code |-> payload.supplier_code]
        ELSE table[k]]

\* _apply_ingredient_import(db, rows) from payload n on: the session is
\* flushed by the query of the next payload and by the commit, so the
\* unique index is checked after every payload.
RECURSIVE ApplyIngredientRows(_, _, _, _, _)
ApplyIngredientRows(table, rows, n, created, updated) ==
    IF n > Len(rows)
    THEN [kind |-> "ok", table |-> table, created |-> created, updated |-> updated]
    ELSE CHOOSE out \in
            {IF ~ SupplierCodesUnique(next) THEN Raise("IntegrityError")
             ELSE IF rows[n].name \in DOMAIN table
                  THEN ApplyIngredientRows(next, rows, n + 1, created, updated + 1)
                  ELSE ApplyIngredientRows(next, rows, n + 1, created + 1, updated) :
                next \in {ApplyPayload(table, rows[n])}} : TRUE

_apply_ingredient_import(table, rows) == ApplyIngredientRows(table, rows, 1, 0, 0)

----------------------------------------------------------------------------
(* acpof_pages/imports/import_data.py: the CSV import of recipes.  A       *)
(* recipe is known by its name; the model names recipes by their number, 0 *)
(* standing for an empty name cell.                                        *)

\* int(x) on a float: truncation toward zero.
PyInt(r) == IF r.num < 0 THEN -((-r.num) \div r.den) ELSE r.num \div r.den

Max(a, b) == IF a >= b THEN a ELSE b

\* Truth value of a cell: NaN and a text are true, a number is true unless
\* it is zero.
Truthy(cell) == cell.kind # "num" \/ ~ RIsZero(cell.value)

\* The servings as the cell gives them, without a lower bound.
ServingsOfCellAsRead(cell) ==
    IF cell.kind = "nan" THEN Raise("ValueError")
    ELSE IF cell.kind = "num" THEN Ok(PyInt(cell.value))
    ELSE IF PyFloat(StripText(cell.chars)).kind = "ok"
         THEN Ok(PyInt(PyFloat(StripText(cell.chars)).value))
         ELSE PyFloat(StripText(cell.chars))

\* max(1, int(float(servings))): int() of NaN is a ValueError, float() of a
\* text reads it after stripping blanks.
ServingsOfCell(cell) ==
    IF cell.kind = "nan" THEN Raise("ValueError")
    ELSE IF cell.kind = "num" THEN Ok(Max(1, PyInt(cell.value)))
    ELSE LET f == PyFloat(StripText(cell.chars))
         IN  IF f.kind = "ok" THEN Ok(Max(1, PyInt(f.value))) ELSE f

\* unit = normalize_unit(_clean_unit_text(_coerce_str(row.get("unit")) or "g"))
ItemUnitOfCell(cell) ==
    normalize_unit(_clean_unit_text(IF _coerce_str(cell) = "" THEN "g"
                                    ELSE _coerce_str(cell)))

RecipeError(line_no, what) == [line |-> line_no, error |-> what]

\* One turn of the loop of _parse_recipe_rows on the state acc = [recipes,
\* errors], recipes being the dict name -> [servings, items].
ParseRecipeRow(acc, row, line_no) ==
    IF row.recipe = 0
    THEN [acc EXCEPT !.errors = Append(@, RecipeError(line_no, "nom de recette manquant"))]
    ELSE
        LET name == row.recipe
            rec0 == IF name \in DOMAIN acc.recipes THEN acc.recipes[name]
                    ELSE [servings |-> 1, items |-> <<>>]
            reads_servings == Truthy(row.servings) /\ rec0.servings = 1
            servings == ServingsOfCell(row.servings)
            rec1 == IF reads_servings /\ servings.kind = "ok"
                    THEN [rec0 EXCEPT !.servings = servings.value]
                    ELSE rec0
            errors1 == IF reads_servings /\ servings.kind # "ok"
                       THEN Append(acc.errors, RecipeError(line_no, "portions invalides"))
                       ELSE acc.errors
            qty == _coerce_float(row.quantity)
            With(rec, errors) ==
                [recipes |-> [k \in DOMAIN acc.recipes \cup {name} |->
                                 IF k = name THEN rec ELSE acc.recipes[k]],
                 errors |-> errors]
        IN  IF row.ingredient = 0 THEN With(rec1, errors1)
            ELSE IF qty.kind # "ok"
                 THEN With(rec1, Append(errors1, RecipeError(line_no, "ValueError")))
            ELSE IF IsNone(qty.value)
                 THEN With(rec1, Append(errors1, RecipeError(line_no, "quantité manquante")))
            ELSE IF row.ingredient \notin DOMAIN ingredients
                 THEN With(rec1, Append(errors1, RecipeError(line_no, "ingrédient inconnu")))
            ELSE With([rec1 EXCEPT !.items =
                          Append(@, RecipeItem(row.ingredient, qty.value,
                                     ItemUnitOfCell(row.unit)))],
                      errors1)

RECURSIVE ParseRecipeRows(_, _, _)
ParseRecipeRows(acc, df, k) ==
    IF k > Len(df) THEN acc
    ELSE CHOOSE out \in
            {ParseRecipeRows(next, df, k + 1) :
                next \in {ParseRecipeRow(acc, df[k], k + 1)}} : TRUE

\* _parse_recipe_rows(df, db), the required columns present: the recipes
\* that have an item, and the errors; a recipe without any valid item is
\* dropped with an error of its own (line 0).
_parse_recipe_rows(df) ==
    CHOOSE out \in
        {[recipes |-> [n \in {m \in DOMAIN acc.recipes : acc.recipes[m].items # <<>>} |->
                          acc.recipes[n]],
          errors |-> acc.errors,
          ignored |-> {m \in DOMAIN acc.recipes : acc.recipes[m].items = <<>>}] :
            acc \in {ParseRecipeRows([recipes |-> <<>>, errors |-> <<>>], df, 1)}} :
        TRUE

\* _apply_recipe_import(db, recipes): every recipe of the payload is
\* created or updated, its items replaced by the items of the payload.  Two
\* items of one recipe with the same ingredient violate
\* uix_recipe_ingredient.  inserts_first: the flush sends the INSERTs of the
\* new items before the DELETEs of the items they replace, so a new item
\* whose ingredient the recipe already holds violates the constraint too.
_apply_recipe_import(table, payloads, inserts_first) ==
    LET collides(n) ==
            \/ ~ DistinctIngredients(payloads[n].items)
            \/ /\ inserts_first
               /\ n \in DOMAIN table
               /\ \E a \in 1..Len(table[n].items), b \in 1..Len(payloads[n].items) :
                     table[n].items[a].ingredient_id = payloads[n].items[b].ingredient_id
    IN  IF \E n \in DOMAIN payloads : collides(n) THEN Raise("IntegrityError")
        ELSE [kind |-> "ok",
              table |-> [n \in DOMAIN table \cup DOMAIN payloads |->
                            IF n \in DOMAIN payloads
                            THEN [servings |-> IF payloads[n].servings = 0 THEN 1
                                               ELSE payloads[n].servings,
                                  items |-> payloads[n].items]
                            ELSE table[n]],
              created |-> Cardinality(DOMAIN payloads \ DOMAIN table),
              updated |-> Cardinality(DOMAIN payloads \cap DOMAIN table)]

----------------------------------------------------------------------------
(* pages/recipes.py (and acpof_pages/recipes.py): "Enregistrer la recette  *)
(* + ingredients".                                                         *)

\* _unit_choices(base_unit)
_unit_choices(base_unit) ==
    IF base_unit = "g" THEN {"mg", "g", "kg"}
    ELSE IF base_unit = "ml" THEN {"ml", "l"}
    ELSE {"unit"}

\* The item of the recipe for the ingredient is updated, or a new item is
\* added.
UpsertItem(items, ingredient_id, qty, unit) ==
    IF \E k \in 1..Len(items) : items[k].ingredient_id = ingredient_id
    THEN [k \in 1..Len(items) |->
            IF items[k].ingredient_id = ingredient_id
            THEN RecipeItem(ingredient_id, qty, unit)
            ELSE items[k]]
    ELSE Append(items, RecipeItem(ingredient_id, qty, unit))

\* unit in _unit_choices(base)
UnitAllowed(unit, base_unit) == unit \in _unit_choices(base_unit)

\* The loop over the rows of the grid, from row k on.
RECURSIVE SaveGridRows(_, _, _)
SaveGridRows(items, grid, k) ==
    IF k > Len(grid) THEN items
    ELSE LET row == grid[k]
         IN  IF \/ row.ingredient = 0
                \/ RLe(row.quantity, RZero)
                \/ row.ingredient \notin DOMAIN ingredients
                \/ ~ UnitAllowed(row.unit, ingredients[row.ingredient].base_unit)
             THEN SaveGridRows(items, grid, k + 1)
             ELSE SaveGridRows(UpsertItem(items, row.ingredient, row.quantity,
                                          normalize_unit(row.unit)),
                               grid, k + 1)

----------------------------------------------------------------------------
(* The catalogue: every operation that writes ingredients, recipes or      *)
(* recipe items by hand or from a CSV file.                                *)

MaxRows == 2         \* rows of an imported file, rows of the recipe grid

IngredientCsvRow(name, base_unit, pack_size, pack_unit, purchase_price, supplier) ==
    [name |-> name, base_unit |-> base_unit, pack_size |-> pack_size,
     pack_unit |-> pack_unit, purchase_price |-> purchase_price,
     supplier |-> supplier, supplier_code |-> "NaN"]

\* Rows of an ingredient file: a plain update, an ingredient without base
\* unit, a negative pack size, a pack size no number can be read from, a
\* pack in pounds, a row without name, an empty pack size with an empty
\* price.
IngredientCsvRows ==
    {IngredientCsvRow(2, "ml", Num(RInt(1)), "l", Num(RInt(2)), "NaN"),
     IngredientCsvRow(3, "NaN", Num(RInt(1)), "kg", Num(RInt(10)), "Metro"),
     IngredientCsvRow(1, "g", Num(RInt(-5)), "g", Num(RInt(10)), "NaN"),
     IngredientCsvRow(1, "g", Text(<<"1", ".", "2", ".", "3">>), "g",
                      Text(<<"1", "0">>), "NaN"),
     IngredientCsvRow(2, "g", Num(RInt(1)), "lb", Num(RInt(10)), "Metro"),
     IngredientCsvRow(0, "g", Num(RInt(1)), "g", Num(RInt(1)), "NaN"),
     IngredientCsvRow(1, "g", Num(RZero), "kg", NaN, "NaN")}

IngredientFiles == SeqsUpTo(IngredientCsvRows, MaxRows) \ {<<>>}

RecipeCsvRow(recipe, servings, ingredient, quantity, unit) ==
    [recipe |-> recipe, servings |-> servings, ingredient |-> ingredient,
     quantity |-> quantity, unit |-> unit]

\* Rows of a recipe file: a plain row, a row without unit, a second line
\* for an ingredient of the same recipe, an ingredient that may not exist,
\* a row without quantity, a quantity no number can be read from, a row
\* without recipe name; among them servings of -3 and of "0".
RecipeCsvRows ==
    {RecipeCsvRow(1, Num(RInt(2)), 1, Num(RInt(100)), "g"),
     RecipeCsvRow(1, NaN, 2, Num(RInt(100)), "NaN"),
     RecipeCsvRow(1, NaN, 1, Num(RInt(100)), "kg"),
     RecipeCsvRow(2, Num(RInt(-3)), 3, Num(RInt(100)), "pièce"),
     RecipeCsvRow(1, NaN, 2, NaN, "ml"),
     RecipeCsvRow(1, Text(<<"0">>), 2, Text(<<"1", ".", "2", ".", "3">>), "l"),
     RecipeCsvRow(0, NaN, 1, Num(RInt(100)), "g")}

PlainRecipeCsvRow == RecipeCsvRow(1, Num(RInt(2)), 1, Num(RInt(100)), "g")

\* The recipe files: one row, or the plain row followed by one row.
RecipeFiles ==
    {<<row>> : row \in RecipeCsvRows} \cup
    {<<PlainRecipeCsvRow, row>> : row \in RecipeCsvRows}

GridRow(ingredient, quantity, unit) ==
    [ingredient |-> ingredient, quantity |-> quantity, unit |-> unit]

\* (recipe, servings, grid) of the recipe form.
RecipeForms ==
    {<<1, 2, <<GridRow(1, RInt(100), "g")>>>>,
     <<1, 1, <<GridRow(2, RInt(100), "l"), GridRow(2, RInt(100), "ml")>>>>,
     <<2, 4, <<GridRow(1, RInt(100), "ml"), GridRow(3, RInt(100), "unit")>>>>,
     <<2, 1, <<GridRow(0, RZero, ""), GridRow(1, RZero, "g")>>>>}

InitCatalog ==
    /\ ingredients = [i \in {1, 2} |-> Catalog[i]]
    /\ recipes = <<>>
    /\ menuItems = <<>>
    /\ movements = <<>>
    /\ ledger = <<>>
    /\ procs = <<>>
    /\ call = NoCall
    /\ result = NoResult

\* "Importer les ingrédients": the file is parsed, the entries applied when
\* there are any; an exception rolls the session back.
ImportIngredientsCsv(df) ==
    \E parsed \in {_parse_ingredient_rows(df)} :
    \E applied \in {IF parsed.entries # <<>>
                    THEN _apply_ingredient_import(ingredients, parsed.entries)
                    ELSE [kind |-> "ok", table |-> ingredients]} :
        /\ call' = [op |-> "import_ingredients_csv", df |-> df]
        /\ result' = [kind |-> applied.kind, errors |-> parsed.errors,
                      skipped |-> parsed.skipped]
        /\ ingredients' = IF applied.kind = "ok" THEN applied.table ELSE ingredients
        /\ UNCHANGED <<recipes, menuItems, movements, ledger, procs>>

\* "Importer les recettes".
ImportRecipesCsv(df, inserts_first) ==
    \E parsed \in {_parse_recipe_rows(df)} :
    \E applied \in {IF DOMAIN parsed.recipes # {}
                    THEN _apply_recipe_import(recipes, parsed.recipes, inserts_first)
                    ELSE [kind |-> "ok", table |-> recipes]} :
        /\ call' = [op |-> "import_recipes_csv", df |-> df]
        /\ result' = [kind |-> applied.kind, errors |-> parsed.errors,
                      ignored |-> parsed.ignored]
        /\ recipes' = IF applied.kind = "ok" THEN applied.table ELSE recipes
        /\ UNCHANGED <<ingredients, menuItems, movements, ledger, procs>>

\* "Enregistrer la recette + ingredients": the recipe of that name is
\* created or updated, then the rows of the grid are saved.
SaveRecipe(name, servings, grid) ==
    /\ call' = [op |-> "save_recipe", name |-> name]
    /\ result' = Ok("saved")
    /\ recipes' =
          [n \in DOMAIN recipes \cup {name} |->
              IF n = name
              THEN [servings |-> servings,
                    items |-> SaveGridRows(IF name \in DOMAIN recipes
                                           THEN recipes[name].items ELSE <<>>,
                                           grid, 1)]
              ELSE recipes[n]]
    /\ UNCHANGED <<ingredients, menuItems, movements, ledger, procs>>

\* The writes of ingredients: the ingredient form and the ingredient files.
NextIngredients ==
    \/ \E f \in SaveInputs : SaveIngredient(f[1], f[2], f[3], f[4], f[5])
    \/ \E df \in IngredientFiles : ImportIngredientsCsv(df)

SpecIngredients == InitCatalog /\ [][NextIngredients]_vars

\* The ingredient files drawn along with the writes of recipes: one that
\* creates ingredient 3, one that updates ingredient 2.
CatalogIngredientFiles ==
    {<<IngredientCsvRow(3, "NaN", Num(RInt(1)), "kg", Num(RInt(10)), "Metro")>>,
     <<IngredientCsvRow(2, "ml", Num(RInt(1)), "l", Num(RInt(2)), "NaN")>>}

\* The writes of ingredients, recipes and recipe items.
NextCatalog ==
    \/ \E f \in SaveInputs : SaveIngredient(f[1], f[2], f[3], f[4], f[5])
    \/ \E df \in CatalogIngredientFiles : ImportIngredientsCsv(df)
    \/ \E f \in RecipeForms : SaveRecipe(f[1], f[2], f[3])
    \/ \E df \in RecipeFiles, inserts_first \in BOOLEAN :
          ImportRecipesCsv(df, inserts_first)

SpecCatalog == InitCatalog /\ [][NextCatalog]_vars

----------------------------------------------------------------------------
(* The stored ingredients after writes by the form and by CSV files.       *)

\* The stored price of an ingredient is its purchase price per base unit of
\* its pack.
StatedPriceConsistent(row) ==
    /\ StatedConvertible(row.pack_unit, row.base_unit)
    /\ ~ RLe(StatedToBase(row.pack_size, row.pack_unit), RZero)
    /\ row.price_per_base_unit =
          RDiv(row.purchase_price, StatedToBase(row.pack_size, row.pack_unit))

\* C11: after any sequence of saves of the ingredient form and ingredient
\* CSV imports, every stored ingredient has price_per_base_unit =
\* purchase_price / (pack_size converted from pack_unit to base_unit).
C11_StoredPriceIsPricePerBaseUnit ==
    \A i \in DOMAIN ingredients : StatedPriceConsistent(ingredients[i])

\* The row of an ingredient file names an ingredient and holds a pack size
\* that is a number <= 0.
StatedNonPositivePack(row) ==
    /\ row.name # 0
    /\ row.pack_size.kind = "num"
    /\ RLe(row.pack_size.value, RZero)

\* C13: no ingredient with a pack size <= 0 is ever stored, and a row of an
\* ingredient file with a pack size <= 0 is reported as an error of its
\* line (the first data row is line 2).
C13_NonPositivePackNeverPersisted ==
    /\ \A i \in DOMAIN ingredients : ~ RLe(ingredients[i].pack_size, RZero)
    /\ call.op = "import_ingredients_csv" =>
          \A k \in 1..Len(call.df) :
              StatedNonPositivePack(call.df[k]) =>
                  \E e \in 1..Len(result.errors) : result.errors[e] = k + 1

----------------------------------------------------------------------------
(* The stored recipes after writes by the forms and by CSV files.          *)

\* C12: after any sequence of recipe saves, recipe CSV imports and
\* ingredient saves and imports, the unit of every stored recipe item is one
\* to_base_units converts to the current base unit of its ingredient.
C12_ItemUnitConvertsToBaseUnit ==
    \A n \in DOMAIN recipes :
        \A k \in 1..Len(recipes[n].items) :
            recipes[n].items[k].ingredient_id \in DOMAIN ingredients =>
                to_base_units(RInt(1), recipes[n].items[k].unit,
                              ingredients[recipes[n].items[k].ingredient_id].base_unit).kind
                    = "ok"

\* Row k of a recipe file is valid: it names a recipe and a known
\* ingredient, holds a quantity, and is the first line of its ingredient in
\* its recipe.
StatedRecipeRowValid(df, k) ==
    /\ df[k].recipe # 0
    /\ df[k].ingredient \in DOMAIN ingredients
    /\ df[k].quantity.kind = "num"
    /\ ~ \E j \in 1..(k - 1) :
            df[j].recipe = df[k].recipe /\ df[j].ingredient = df[k].ingredient

\* The row of line k + 1 is reported as an error.
StatedRowReported(k) ==
    \E e \in 1..Len(result.errors) : result.errors[e].line = k + 1

\* The item of the row is stored in the recipe of the row.
StatedRowPersisted(row) ==
    /\ row.recipe \in DOMAIN recipes
    /\ \E i \in 1..Len(recipes[row.recipe].items) :
          /\ recipes[row.recipe].items[i].ingredient_id = row.ingredient
          /\ recipes[row.recipe].items[i].quantity = row.quantity.value

\* C14: after a recipe CSV import every invalid row of the file is reported
\* as an error and the item of every valid row is stored; after an
\* ingredient CSV import every row whose numbers cannot be read is reported
\* and the ingredient of every other named row is stored.
C14_BadRowNeverAbortsTheRest ==
    /\ call.op = "import_recipes_csv" =>
          \A k \in 1..Len(call.df) :
              IF StatedRecipeRowValid(call.df, k)
              THEN StatedRowPersisted(call.df[k])
              ELSE StatedRowReported(k)
    /\ call.op = "import_ingredients_csv" =>
          \A k \in 1..Len(call.df) :
              call.df[k].name # 0 =>
                  IF call.df[k].pack_size.kind = "text"
                  THEN \E e \in 1..Len(result.errors) : result.errors[e] = k + 1
                  ELSE call.df[k].name \in DOMAIN ingredients

\* C20: after a recipe CSV import that went through, the item of a row
\* without unit has the base unit of the ingredient of the row as its unit.
C20_MissingUnitTakesBaseUnit ==
    (call.op = "import_recipes_csv" /\ result.kind = "ok") =>
        \A k \in 1..Len(call.df) :
            (StatedRecipeRowValid(call.df, k) /\ call.df[k].unit = "NaN") =>
                \E i \in 1..Len(recipes[call.df[k].recipe].items) :
                    /\ recipes[call.df[k].recipe].items[i].ingredient_id =
                          call.df[k].ingredient
                    /\ recipes[call.df[k].recipe].items[i].unit =
                          ingredients[call.df[k].ingredient].base_unit

----------------------------------------------------------------------------
(* _coerce_float on texts: every text of up to MaxText characters of an    *)
(* alphabet of digits, separators, a blank, signs and a letter, and the    *)
(* amounts and placeholders a price column holds.                          *)

MaxText == 4

TextAlphabet == {"1", "2", ",", ".", " ", "-", "+", "x"}

ExampleTexts ==
    {<<"1", " ", "2", "3", "4", ",", "5", "6">>,
     <<"1", "NBSP", "2", "3", "4", ",", "5", "6">>,
     <<"NNBSP", "1", "2", "3", "4", ",", "5", "6", "NBSP">>,
     <<"1", ",", "2", "3", "4", ".", "5", "6">>,
     <<"1", ".", "2", "3", "4", ",", "5", "6">>,
     <<"4", ",", "6">>,
     <<"1", "2", ".", "5", "%">>,
     <<"$", "1", "0", ".", "0", "0", " ", "C", "A", "D">>,
     <<"1", ".", "2", "3", "4", ",", "5", "6", " ", "EURO">>,
     <<"n", "/", "a">>, <<"N", "/", "A">>, <<"N", "a">>, <<"S", "/", "O">>,
     <<"N", "o", "n", "e">>, <<"EMDASH">>,
     <<"1", ",", "2", "3", "4", ",", "5", "6", "7">>,
     <<"1", ".", "2", "3", "4", ".", "5", "6", "7">>,
     <<"1", " ", "2", "3", "4", " ", "5", "6", "7">>,
     <<"1", ",", "2", "3", "4">>,
     <<"1", ".", "2", "3", "4">>,
     <<"1", " ", "2", "3", "4">>,
     <<"1", ",", "2", "3", "4", ",", "5", "6", "7", ".", "8", "9">>,
     <<"-", "1", ".", "2", "3", "4", ".", "5", "6", "7", ",", "8", "9">>}

CoerceTexts == SeqsUpTo(TextAlphabet, MaxText) \cup ExampleTexts

InitCoerce ==
    /\ ingredients = Catalog
    /\ recipes = <<>>
    /\ menuItems = <<>>
    /\ movements = <<>>
    /\ ledger = <<>>
    /\ procs = <<>>
    /\ call \in {[op |-> "none", value |-> Text(t)] : t \in CoerceTexts}
    /\ result = NoResult

CallCoerceFloat ==
    /\ call.op = "none"
    /\ call' = [call EXCEPT !.op = "_coerce_float"]
    /\ result' = _coerce_float(call.value)
    /\ UNCHANGED <<ingredients, recipes, menuItems, movements, ledger, procs>>

NextCoerce == CallCoerceFloat

SpecCoerce == InitCoerce /\ [][NextCoerce]_vars

----------------------------------------------------------------------------
(* Properties of _coerce_float.                                            *)

Coerced == call.op = "_coerce_float"

\* The text without blanks, currency signs, a currency code at its end and
\* "%".
StatedBare(t) ==
    Without(DropCurrencyCode(Without(t, {" ", "NBSP", "NNBSP", "$", "EURO", "POUND"})),
            {"%"})

\* The separator that is the decimal point of a text that holds both.
StatedDecimalPoint(t) == IF RFind(t, ",") > RFind(t, ".") THEN "," ELSE "."

\* The text without the separator that is not its decimal point, and
\* without a sign in front.
StatedKept(t) == Without(t, {",", "."} \ {StatedDecimalPoint(t)})
StatedUnsigned(t) ==
    IF StatedKept(t) # <<>> /\ StatedKept(t)[1] \in {"+", "-"}
    THEN Tail(StatedKept(t)) ELSE StatedKept(t)

\* The text holds both separators, its decimal point once, and beside the
\* separators and a sign in front only digits, one at least.
StatedMixedAmount(t) ==
    /\ Has(t, ",") /\ Has(t, ".")
    /\ Len(StatedUnsigned(t)) >= 2
    /\ \A i \in 1..Len(StatedUnsigned(t)) :
          IF i = RFind(StatedUnsigned(t), StatedDecimalPoint(t))
          THEN StatedUnsigned(t)[i] = StatedDecimalPoint(t)
          ELSE IsDigit(StatedUnsigned(t)[i])

\* The amount such a text denotes: the digits before the decimal point and
\* the digits after it as the fraction.
StatedAmount(t) ==
    LET u == StatedUnsigned(t)
        point == RFind(u, StatedDecimalPoint(t))
        whole == SubSeq(u, 1, point - 1)
        fraction == SubSeq(u, point + 1, Len(u))
        magnitude == RAdd(RInt(DigitsValue(whole, Len(whole))),
                          Rat(DigitsValue(fraction, Len(fraction)),
                              Pow10(Len(fraction))))
    IN  IF StatedKept(t)[1] = "-" THEN RNeg(magnitude) ELSE magnitude

\* The amounts the specification gives for its examples.
StatedExamples ==
    [t \in {<<"1", " ", "2", "3", "4", ",", "5", "6">>,
            <<"1", ",", "2", "3", "4", ".", "5", "6">>,
            <<"1", ".", "2", "3", "4", ",", "5", "6">>,
            <<"4", ",", "6">>,
            <<"1", "2", ".", "5", "%">>,
            <<"$", "1", "0", ".", "0", "0", " ", "C", "A", "D">>} |->
        CASE t = <<"4", ",", "6">> -> Rat(46, 10)
          [] t = <<"1", "2", ".", "5", "%">> -> Rat(125, 10)
          [] t = <<"$", "1", "0", ".", "0", "0", " ", "C", "A", "D">> -> RInt(10)
          [] OTHER -> Rat(123456, 100)]

\* C21: a text that, without blanks, currency signs, currency code and "%",
\* holds both "," and "." (its decimal point once, digits elsewhere) is
\* read with the rightmost of the two as decimal point and the other
\* dropped; the examples give 1234.56, 4.6, 12.5 and 10.0; a placeholder in
\* any letter case gives None.
C21_RightmostSeparatorIsDecimalPoint ==
    Coerced =>
        /\ StatedMixedAmount(StatedBare(call.value.chars)) =>
              result = Ok(StatedAmount(StatedBare(call.value.chars)))
        /\ call.value.chars \in DOMAIN StatedExamples =>
              result = Ok(StatedExamples[call.value.chars])
        /\ LowerText(StripText(call.value.chars)) \in Placeholders =>
              result = Ok(None)

\* C21 witness: "1.234,56 EUR-sign" has been read as 1234.56.
C21_Witness ==
    /\ Coerced
    /\ call.value.chars = <<"1", ".", "2", "3", "4", ",", "5", "6", " ", "EURO">>
    /\ StatedMixedAmount(StatedBare(call.value.chars))
    /\ result = Ok(Rat(123456, 100))

\* The text is digits grouped in thousands by the separator sep: one to
\* three digits, then groups of sep and three digits, one group at least.
StatedGrouped(t, sep) ==
    /\ Has(t, sep)
    /\ Len(t) >= 5
    /\ \A i \in 1..Len(t) :
          IF (Len(t) - i) % 4 = 3 THEN t[i] = sep /\ i > 1
          ELSE IsDigit(t[i])

\* C22: a digit string grouped in thousands by ".", "," or a blank is read
\* as the integer it denotes.
C22_ThousandsSeparatorsTolerated ==
    Coerced =>
        \A sep \in {",", ".", " "} :
            StatedGrouped(call.value.chars, sep) =>
                result = Ok(RInt(DigitsValue(Without(call.value.chars, {sep}),
                                             Len(Without(call.value.chars, {sep})))))

\* What remains of a text without every character that is not a digit,
\* ".", "-" or "+".
StatedResidual(t) == SelectSeq(t, LAMBDA c : IsDigit(c) \/ c \in {".", "-", "+"})

\* C23: a text of which nothing, a lone sign or a lone point remains gives
\* None, not an error.
C23_EmptyResidualIsNone ==
    Coerced =>
        (StatedResidual(call.value.chars) \in {<<>>, <<"+">>, <<"-">>, <<".">>} =>
            result = Ok(None))

----------------------------------------------------------------------------
(* _clean_unit_text and normalize_unit on texts spelled out character by   *)
(* character, the way _coerce_float is modelled: every text of up to       *)
(* MaxUnitText characters of letters in both cases, a blank, a quote, the  *)
(* punctuation the prefix rule drops, an accented letter and the degree    *)
(* Celsius sign U+2103 ("CELSIUS"), whose NFKD decomposition is the        *)
(* degree sign followed by a capital C.                                    *)

MaxUnitText == 3

UnitAlphabet == {"k", "g", "u", "n", "K", " ", "-", "/", "'", "é", "CELSIUS"}

UnitTexts == SeqsUpTo(UnitAlphabet, MaxUnitText)

\* unicodedata.normalize("NFKD", c) without its combining marks, for one
\* character.
DecomposeChar(c) ==
    CASE c = "é" -> <<"e">>
      [] c = "î" -> <<"i">>
      [] c = "è" -> <<"e">>
      [] c = "CELSIUS" -> <<"°", "C">>
      [] c = "NBSP" -> <<" ">>
      [] OTHER -> <<c>>

\* NFKD of a text, the combining marks dropped.
RECURSIVE DecomposeText(_, _)
DecomposeText(t, n) ==
    IF n = 0 THEN <<>> ELSE DecomposeText(t, n - 1) \o DecomposeChar(t[n])

\* re.sub(r"^[\/\-<en dash><em dash>\s]+", "", s)
DropPrefix(t) ==
    IF \A i \in 1..Len(t) : t[i] \in {"/", "-", "ENDASH", "EMDASH"} \/ IsSpace(t[i])
    THEN <<>>
    ELSE SubSeq(t,
                CHOOSE i \in 1..Len(t) :
                    /\ ~ (t[i] \in {"/", "-", "ENDASH", "EMDASH"} \/ IsSpace(t[i]))
                    /\ \A j \in 1..(i - 1) :
                          t[j] \in {"/", "-", "ENDASH", "EMDASH"} \/ IsSpace(t[j]),
                Len(t))

\* re.sub(r"\s+", " ", s): every run of blanks becomes one blank.
CollapseBlanks(t) ==
    LET kept == {i \in 1..Len(t) : ~ (IsSpace(t[i]) /\ i > 1 /\ IsSpace(t[i - 1]))}
        nth(k) == CHOOSE i \in kept : Cardinality({j \in kept : j <= i}) = k
    IN  [k \in 1..Cardinality(kept) |-> IF IsSpace(t[nth(k)]) THEN " " ELSE t[nth(k)]]

\* synonyms.get(s, s)
SynonymsOfText(t) ==
    CASE t \in {<<"u", "n", "i", "t", "e">>,
                <<"u">>,
                <<"p", "i", "e", "c", "e">>,
                <<"p", "c">>,
                <<"p", "z">>,
                <<"p", "o", "r", "t", "i", "o", "n">>,
                <<"p", "a", "q", "u", "e", "t">>,
                <<"c", "a", "i", "s", "s", "e">>,
                <<"b", "o", "i", "t", "e">>,
                <<"b", "o", "î", "t", "e">>,
                <<"b", "t", "e">>,
                <<"s", "a", "c">>,
                <<"s", "a", "c", "h", "e", "t">>} -> <<"u", "n", "i", "t">>
      [] t \in {<<"l", "i", "t", "r", "e">>,
                <<"l", "i", "t", "e", "r">>} -> <<"l">>
      [] t \in {<<"m", "i", "l", "l", "i", "l", "i", "t", "r", "e">>,
                <<"m", "i", "l", "l", "i", "l", "i", "t", "e", "r">>} -> <<"m", "l">>
      [] t \in {<<"g", "r", "a", "m", "m", "e">>} -> <<"g">>
      [] t \in {<<"k", "i", "l", "o", "g", "r", "a", "m", "m", "e">>} -> <<"k", "g">>
      [] t \in {<<"l", "b", "s">>} -> <<"l", "b">>
      [] OTHER -> t

\* _clean_unit_text(s) on a text: strip and lower, NFKD without combining
\* marks, quotes dropped, the leading punctuation dropped, blanks
\* collapsed and stripped, synonyms.
CleanUnitChars(t) ==
    CHOOSE out \in
        {SynonymsOfText(StripText(CollapseBlanks(DropPrefix(
             Without(decomposed, {"'", "BACKTICK", "RSQUO"}))))) :
            decomposed \in
                {DecomposeText(low, Len(low)) : low \in {LowerText(StripText(t))}}} :
        TRUE

\* normalize_unit(u) on a text.
NormalizeUnitChars(t) ==
    CHOOSE out \in
        {IF low \in {<<"u", "n">>, <<"p", "c", "s">>} THEN <<"u", "n", "i", "t">>
         ELSE low : low \in {LowerText(t)}} : TRUE

InitClean ==
    /\ ingredients = Catalog
    /\ recipes = <<>>
    /\ menuItems = <<>>
    /\ movements = <<>>
    /\ ledger = <<>>
    /\ procs = <<>>
    /\ call \in {[op |-> "none", s |-> t] : t \in UnitTexts}
    /\ result = NoResult

\* _clean_unit_text(s), then normalize_unit on what it returns.
CallCleanUnitText ==
    /\ call.op = "none"
    /\ call' = [call EXCEPT !.op = "_clean_unit_text"]
    /\ result' = Ok([cleaned |-> CleanUnitChars(call.s),
                     unit |-> NormalizeUnitChars(CleanUnitChars(call.s))])
    /\ UNCHANGED <<ingredients, recipes, menuItems, movements, ledger, procs>>

NextClean == CallCleanUnitText

SpecClean == InitClean /\ [][NextClean]_vars

\* C24: for every text s, normalize_unit applied to
\* normalize_unit(_clean_unit_text(s)) returns it unchanged, and
\* _clean_unit_text applied to _clean_unit_text(s) returns it unchanged.
C24_UnitCanonicalizationIdempotent ==
    call.op = "_clean_unit_text" =>
        /\ NormalizeUnitChars(result.value.unit) = result.value.unit
        /\ CleanUnitChars(result.value.cleaned) = result.value.cleaned

\* C25: after any sequence of saves of the recipe form and recipe CSV
\* imports, every stored recipe has servings >= 1.
C25_ServingsAtLeastOne ==
    \A n \in DOMAIN recipes : recipes[n].servings >= 1

\* C25 witness: a file whose row gives -3 servings has been imported and
\* its recipe is stored.
C25_Witness ==
    /\ call.op = "import_recipes_csv"
    /\ result.kind = "ok"
    /\ \E k \in 1..Len(call.df) :
          /\ call.df[k].servings = Num(RInt(-3))
          /\ call.df[k].recipe \in DOMAIN recipes
          /\ recipes[call.df[k].recipe].servings = 1

----------------------------------------------------------------------------
(* acpof_pages/inventory.py: _current_stock_map, on the rows of            *)
(* stock_movements as the table can hold them: qty as entered, with any    *)
(* sign, a unit, and a movement type in either case.                       *)

\* (m.movement_type or "").lower().startswith("in") on the types drawn.
StartsWithIn(movement_type) == movement_type \in {"in", "IN"}

\* One turn of the loop: the delta of the movement, or a skip (unknown
\* ingredient, quantity 0, unit that does not convert).
StockDelta(m) ==
    IF m.ingredient_id \notin DOMAIN ingredients THEN Raise("skip")
    ELSE IF RIsZero(m.qty) THEN Raise("skip")
    ELSE IF to_base_units(RAbs(m.qty), normalize_unit(m.unit),
                          normalize_unit(ingredients[m.ingredient_id].base_unit)).kind
              # "ok"
         THEN Raise("skip")
    ELSE Ok(RMul(IF StartsWithIn(m.movement_type) THEN RInt(1) ELSE RInt(-1),
                 to_base_units(RAbs(m.qty), normalize_unit(m.unit),
                               normalize_unit(ingredients[m.ingredient_id].base_unit)).value))

\* stock[i.id] = stock.get(i.id, 0.0) + delta
AddDelta(stock, id, delta) ==
    [k \in DOMAIN stock \cup {id} |->
        IF k = id THEN RAdd(IF id \in DOMAIN stock THEN stock[id] ELSE RZero, delta)
        ELSE stock[k]]

\* The loop over the movements, from row i on.
RECURSIVE StockMapRows(_, _, _)
StockMapRows(table, i, stock) ==
    IF i > Len(table) THEN stock
    ELSE CHOOSE out \in
            {StockMapRows(table, i + 1, next) :
                next \in {IF StockDelta(table[i]).kind = "ok"
                          THEN AddDelta(stock, table[i].ingredient_id,
                                        StockDelta(table[i]).value)
                          ELSE stock}} : TRUE

\* _current_stock_map(db)
_current_stock_map(table) == StockMapRows(table, 1, <<>>)

\* Rows of stock_movements: entries and exits as the inventory page writes
\* them, a row of add_stock_movement (qty left at 0), a negative entry, an
\* entry in a unit that does not convert, a positive and a negative
\* adjustment.
StockRows ==
    {Movement(1, RInt(2), "kg", RZero, "IN"),
     Movement(1, RInt(500), "g", RZero, "OUT"),
     Movement(2, RInt(1), "l", RZero, "in"),
     Movement(1, RZero, "g", RInt(200), "in"),
     Movement(1, RInt(-3), "g", RZero, "in"),
     Movement(1, RInt(5), "ml", RZero, "IN"),
     Movement(1, RInt(5), "g", RZero, "adjust"),
     Movement(2, RInt(-5), "ml", RZero, "adjust")}

InitStockMap ==
    /\ ingredients = Catalog
    /\ recipes = <<>>
    /\ menuItems = <<>>
    /\ movements \in SeqsUpTo(StockRows, MaxMovements)
    /\ ledger = <<>>
    /\ procs = <<>>
    /\ call = NoCall
    /\ result = NoResult

CallPageStockMap ==
    /\ call.op = "none"
    /\ call' = [op |-> "_current_stock_map"]
    /\ result' = Ok(_current_stock_map(movements))
    /\ UNCHANGED <<ingredients, recipes, menuItems, movements, ledger, procs>>

NextStockMap == CallPageStockMap

SpecStockMap == InitStockMap /\ [][NextStockMap]_vars

\* The signed quantity in base units of a row: +|amount| for an entry,
\* -|amount| for an exit, the amount with its stored sign for an
\* adjustment; 0 for a row whose unit does not convert.
StatedSignedRow(m) ==
    IF ~ StatedConvertible(m.unit, ingredients[m.ingredient_id].base_unit) THEN RZero
    ELSE CASE m.movement_type \in {"in", "IN"} ->
                  RAbs(StatedToBase(m.qty, m.unit))
           [] m.movement_type \in {"out", "OUT"} ->
                  RNeg(RAbs(StatedToBase(m.qty, m.unit)))
           [] OTHER -> StatedToBase(m.qty, m.unit)

RECURSIVE StatedStockOfRows(_, _, _)
StatedStockOfRows(table, n, ing) ==
    IF n = 0 THEN RZero
    ELSE RAdd(IF table[n].ingredient_id = ing THEN StatedSignedRow(table[n]) ELSE RZero,
              StatedStockOfRows(table, n - 1, ing))

----------------------------------------------------------------------------
(* The menus pages: "Enregistrer le menu" of acpof_pages/menus.py          *)
(* (portions per recipe) and of pages/menus.py (one number of batches for  *)
(* every selected recipe), for one named menu that exists, with the edits  *)
(* of recipes by the recipe form.                                          *)

\* float(x or 1) on the servings of a recipe.
ServingsOrOne(servings) == IF servings = 0 THEN RInt(1) ELSE RInt(servings)

\* batches = portions / base_serv
BatchesOfPortions(portions, servings) == RDiv(portions, ServingsOrOne(servings))

\* The links the loop over the rows of the portions table adds: one for
\* every row with portions > 0, from row k on.
RECURSIVE PortionLinks(_, _)
PortionLinks(rows, k) ==
    IF k > Len(rows) THEN <<>>
    ELSE IF RLe(rows[k].portions, RZero) \/ rows[k].recipe_id \notin DOMAIN recipes
         THEN PortionLinks(rows, k + 1)
    ELSE <<[recipe_id |-> rows[k].recipe_id,
            batches |-> BatchesOfPortions(rows[k].portions,
                                          recipes[rows[k].recipe_id].servings)]>>
         \o PortionLinks(rows, k + 1)

\* round(x) of Python: to the nearest integer, a tie to the even one.
PyRound(r) ==
    LET q == r.num \div r.den
        rest == r.num - q * r.den
    IN  IF 2 * rest < r.den THEN q
        ELSE IF 2 * rest > r.den THEN q + 1
        ELSE IF q % 2 = 0 THEN q ELSE q + 1

\* "Portions" of the table of the selected menu: int(round(batches *
\* servings)).
PortionsShown(link) ==
    PyRound(RMul(link.batches, ServingsOrOne(recipes[link.recipe_id].servings)))

\* The recipes offered by the multiselect, in the order of their names.
SelectionsOf(ids) ==
    {sel \in SeqsUpTo(ids, Cardinality(ids)) :
        \A a, b \in 1..Len(sel) : a < b => sel[a] < sel[b]}

PortionValues == {RZero, RInt(3), RInt(4)}

\* The tables of portions of the form: one row for every selected recipe.
PortionForms ==
    UNION {{rows \in [1..Len(sel) -> [recipe_id : RecipeIds, portions : PortionValues]] :
               \A k \in 1..Len(sel) : rows[k].recipe_id = sel[k]} :
           sel \in SelectionsOf(RecipeIds)}

\* (recipe, servings) of the recipe form, the grid left empty.
MenuRecipeForms == {<<1, 2>>, <<1, 4>>, <<2, 1>>, <<2, 2>>}

InitMenus ==
    /\ ingredients = Catalog
    /\ recipes = [r \in RecipeIds |-> [servings |-> 2, items |-> <<>>]]
    /\ menuItems = <<>>
    /\ movements = <<>>
    /\ ledger = <<>>
    /\ procs = <<>>
    /\ call = NoCall
    /\ result = NoResult

\* acpof_pages/menus.py, "Enregistrer le menu": the links of the menu are
\* deleted, then one link is added for every row with portions > 0 and the
\* session is committed.  Without any selected recipe there is no table and
\* no commit: whether the DELETE is committed later or dropped with the
\* session is either.
SaveMenuPortions(rows, delete_committed) ==
    /\ call' = [op |-> "save_menu_portions", rows |-> rows]
    /\ result' = Ok("saved")
    /\ IF rows # <<>>
       THEN /\ menuItems' = PortionLinks(rows, 1)
            /\ ledger' = rows
       ELSE IF delete_committed
            THEN menuItems' = <<>> /\ ledger' = <<>>
            ELSE UNCHANGED <<menuItems, ledger>>
    /\ UNCHANGED <<ingredients, recipes, movements, procs>>

\* pages/menus.py, "Enregistrer le menu": the links of the menu are
\* deleted, one link with the default number of batches is added for every
\* selected recipe, and the session is committed.
SaveMenuBatches(selected, default_batches) ==
    /\ call' = [op |-> "save_menu_batches", selected |-> selected]
    /\ result' = Ok("saved")
    /\ menuItems' = [k \in 1..Len(selected) |->
                        [recipe_id |-> selected[k], batches |-> default_batches]]
    /\ ledger' = <<>>
    /\ UNCHANGED <<ingredients, recipes, movements, procs>>

NextMenus ==
    \/ \E rows \in PortionForms, delete_committed \in BOOLEAN :
          SaveMenuPortions(rows, delete_committed)
    \/ \E selected \in SelectionsOf(RecipeIds), b \in {RInt(1), RInt(2)} :
          SaveMenuBatches(selected, b)
    \/ \E f \in MenuRecipeForms : SaveRecipe(f[1], f[2], <<>>)

SpecMenus == InitMenus /\ [][NextMenus]_vars

\* C27: a menu item saved from a portions figure P > 0 is stored with
\* batches = P / servings of its recipe, and in every later state the
\* portions shown for it are P, also after the servings of the recipe are
\* edited.
C27_PortionsShownAreAsEntered ==
    /\ call.op = "save_menu_portions" =>
          \A k \in 1..Len(call.rows) :
              ~ RLe(call.rows[k].portions, RZero) =>
                  \E i \in 1..Len(menuItems) :
                      /\ menuItems[i].recipe_id = call.rows[k].recipe_id
                      /\ menuItems[i].batches =
                            RDiv(call.rows[k].portions,
                                 RInt(recipes[call.rows[k].recipe_id].servings))
    /\ \A k \in 1..Len(ledger) :
          ~ RLe(ledger[k].portions, RZero) =>
              \E i \in 1..Len(menuItems) :
                  /\ menuItems[i].recipe_id = ledger[k].recipe_id
                  /\ RInt(PortionsShown(menuItems[i])) = ledger[k].portions

\* C28: after "Enregistrer le menu" the links of the menu are exactly the
\* recipes of the form (those with portions > 0 in acpof_pages), each once;
\* no link of an earlier save survives, also when nothing is selected.
C28_SaveReplacesLinks ==
    /\ call.op = "save_menu_portions" =>
          /\ {menuItems[i].recipe_id : i \in 1..Len(menuItems)} =
                {call.rows[k].recipe_id :
                    k \in {j \in 1..Len(call.rows) : ~ RLe(call.rows[j].portions, RZero)}}
          /\ DistinctRecipes(menuItems)
    /\ call.op = "save_menu_batches" =>
          /\ {menuItems[i].recipe_id : i \in 1..Len(menuItems)} =
                {call.selected[k] : k \in 1..Len(call.selected)}
          /\ DistinctRecipes(menuItems)

-----------------------------------------------------------------------------
(* acpof_pages/production.py: lots of production and their pH tests.  The  *)
(* tables of the sqlite database of the page are the fields of ledger:     *)
(* production_batches, finished_inventory, batch_inputs, batch_tests in    *)
(* insertion order, and product_targets.  A lot code is the sequence of    *)
(* its characters; an id of 0 stands for NULL.                             *)

production_batches == ledger.production_batches
batch_tests == ledger.batch_tests
product_targets == ledger.product_targets

\* The decimal digits of n >= 0, most significant first.
RECURSIVE IntDigits(_)
IntDigits(n) ==
    IF n < 10 THEN <<DigitChars[n + 1]>>
    ELSE IntDigits(n \div 10) \o <<DigitChars[(n % 10) + 1]>>

\* f"{n:02d}": the digits of n, padded with a zero to two characters and
\* never cut.
Format02d(n) == IF n < 10 THEN <<"0">> \o IntDigits(n) ELSE IntDigits(n)

\* f"L{d.strftime('%y%m%d')}" of the date produced_at.
LotPrefix(produced_at) ==
    <<"L">> \o Format02d(produced_at.year % 100)
            \o Format02d(produced_at.month) \o Format02d(produced_at.day)

\* lot_code LIKE 'prefix-%'.
LikePrefix(lot_code, prefix) ==
    /\ Len(lot_code) >= Len(prefix) + 1
    /\ SubSeq(lot_code, 1, Len(prefix)) = prefix
    /\ lot_code[Len(prefix) + 1] = "-"

\* The byte of a character of a lot code, as the BINARY collation of
\* sqlite compares TEXT.
CharCode(c) ==
    CASE c = "-" -> 45
      [] c = "L" -> 76
      [] OTHER -> 48 + DigitVal(c)

\* a < b for two TEXT values: the first character that differs decides, a
\* proper prefix comes first.
TextLess(a, b) ==
    \/ \E i \in 1..Len(a) :
          /\ i <= Len(b)
          /\ CharCode(a[i]) < CharCode(b[i])
          /\ \A j \in 1..(i - 1) : a[j] = b[j]
    \/ /\ Len(a) < Len(b)
       /\ \A j \in 1..Len(a) : a[j] = b[j]

\* The greater of two lot codes, <<>> standing for no row.
GreaterLotCode(a, b) ==
    IF a = <<>> THEN b
    ELSE IF b = <<>> THEN a
    ELSE IF TextLess(a, b) THEN b ELSE a

\* ORDER BY lot_code DESC LIMIT 1 over the rows lo..hi that match the
\* prefix: the greatest lot code, <<>> when no row matches.
RECURSIVE LastLotCode(_, _, _, _)
LastLotCode(rows, prefix, lo, hi) ==
    IF lo > hi THEN <<>>
    ELSE IF lo = hi
         THEN IF LikePrefix(rows[lo].lot_code, prefix) THEN rows[lo].lot_code ELSE <<>>
    ELSE CHOOSE out \in
            {GreaterLotCode(a, b) :
                a \in {LastLotCode(rows, prefix, lo, (lo + hi) \div 2)},
                b \in {LastLotCode(rows, prefix, ((lo + hi) \div 2) + 1, hi)}} : TRUE

\* rows[0][0].split('-')[-1]: the characters after the last '-'.
AfterLastDash(lot_code) == SubSeq(lot_code, RFind(lot_code, "-") + 1, Len(lot_code))

next_short_lot_code(rows, produced_at) ==
    CHOOSE out \in
       {IF last_code = <<>> THEN LotPrefix(produced_at) \o <<"-", "0", "1">>
        ELSE LotPrefix(produced_at) \o <<"-">>
                \o Format02d(DigitsValue(AfterLastDash(last_code),
                                         Len(AfterLastDash(last_code))) + 1) :
           last_code \in {LastLotCode(rows, LotPrefix(produced_at), 1, Len(rows))}} : TRUE

\* The tables recipes(yield_qty) and recipe_ingredients the page reads:
\* recipe 1 yields 6 and takes 2 g of ingredient 1, recipe 2 has no yield
\* and takes 3 g of ingredient 1 and 1 l of ingredient 2.
ProductionRecipes ==
    [r \in RecipeIds |->
        IF r = 1
        THEN [yield_qty |-> RInt(6),
              ingredients |-> <<[ingredient_id |-> 1, qty |-> RInt(2), unit |-> "g"]>>]
        ELSE [yield_qty |-> None,
              ingredients |-> <<[ingredient_id |-> 1, qty |-> RInt(3), unit |-> "g"],
                                [ingredient_id |-> 2, qty |-> RInt(1), unit |-> "l"]>>]]

\* round(x, 4).
Round4(x) == Rat(PyRound(RMul(x, RInt(10000))), 10000)

\* The scale of the ingredients of a lot: quantity / yield_qty when both
\* are positive, 1.0 otherwise.
ScaleFactor(recipe_id, quantity) ==
    IF /\ ~ IsNone(ProductionRecipes[recipe_id].yield_qty)
       /\ ~ RLe(ProductionRecipes[recipe_id].yield_qty, RZero)
       /\ ~ RLe(quantity, RZero)
    THEN RDiv(quantity, ProductionRecipes[recipe_id].yield_qty)
    ELSE RInt(1)

\* The rows of batch_inputs of a new lot: none without a recipe.
BatchInputs(batch_id, recipe_id, quantity) ==
    IF recipe_id = 0 THEN <<>>
    ELSE [k \in 1..Len(ProductionRecipes[recipe_id].ingredients) |->
            [batch_id |-> batch_id,
             ingredient_id |-> ProductionRecipes[recipe_id].ingredients[k].ingredient_id,
             qty_used |-> Round4(RMul(ProductionRecipes[recipe_id].ingredients[k].qty,
                                      ScaleFactor(recipe_id, quantity))),
             unit |-> ProductionRecipes[recipe_id].ingredients[k].unit]]

\* create_batch: the next lot code of the day, the row of the lot with
\* status 'J0', +quantity in finished_inventory, the ingredients of the
\* recipe in batch_inputs, commit.  The INSERT of a lot code that a row
\* already has violates UNIQUE(lot_code): sqlite3.IntegrityError is raised
\* before anything is written.  The columns that nothing reads back
\* (production_type, client_id, format, responsible, notes) are left out.
CreateBatch(produced_at, recipe_id, product_id, quantity) ==
    /\ call' = [op |-> "create_batch", produced_at |-> produced_at,
                recipe_id |-> recipe_id, product_id |-> product_id]
    /\ \E lot_code \in {next_short_lot_code(production_batches, produced_at)} :
        \E batch_id \in {Len(production_batches) + 1} :
          IF \E k \in 1..Len(production_batches) :
                production_batches[k].lot_code = lot_code
          THEN /\ result' = Raise("IntegrityError")
               /\ ledger' = ledger
          ELSE /\ result' = Ok([batch_id |-> batch_id, lot_code |-> lot_code])
               /\ ledger' =
                    [ledger EXCEPT
                       !.production_batches =
                           Append(@, [batch_id |-> batch_id, lot_code |-> lot_code,
                                      produced_at |-> produced_at,
                                      recipe_id |-> recipe_id,
                                      product_id |-> product_id,
                                      quantity |-> quantity, status |-> "J0"]),
                       !.finished_inventory =
                           Append(@, [batch_id |-> batch_id, delta |-> quantity,
                                      reason |-> "production"]),
                       !.batch_inputs =
                           @ \o BatchInputs(batch_id, recipe_id, quantity)]
    /\ UNCHANGED <<ingredients, recipes, menuItems, movements, procs>>

\* The values the SELECT of the pH target of a lot can return first:
\* COALESCE(pt.ph_max, 4.6) of every row of product_targets with the recipe
\* or the product of the lot (a NULL id matches nothing), 4.6 for the one
\* row of the LEFT JOIN when there is none.  LIMIT 1 without ORDER BY
\* returns any of them.
DefaultPhMax == Rat(46, 10)

PhTargets(batch) ==
    LET matching == {k \in 1..Len(product_targets) :
                        \/ /\ batch.recipe_id # 0
                           /\ product_targets[k].recipe_id = batch.recipe_id
                        \/ /\ batch.product_id # 0
                           /\ product_targets[k].product_id = batch.product_id}
    IN  IF matching = {} THEN {DefaultPhMax}
        ELSE {IF IsNone(product_targets[k].ph_max) THEN DefaultPhMax
              ELSE product_targets[k].ph_max : k \in matching}

\* The result stored with a pH test: 'N/A' without a value, else 'OK' up
\* to 4.6 and 'À risque' above.
PhResult(ph_value) ==
    IF IsNone(ph_value) THEN "N/A"
    ELSE IF RLe(ph_value, DefaultPhMax) THEN "OK" ELSE "À risque"

\* The status written at J14.
NewStatus(ph_value, ph_max) ==
    IF ~ IsNone(ph_value) /\ RLe(ph_value, ph_max) THEN "conforme" ELSE "non_conforme"

\* record_ph: the test is added to batch_tests; at test_day 14 the status
\* of the lot is set from the value and the target; commit.
RecordPh(batch_id, test_day, ph_value) ==
    /\ call' = [op |-> "record_ph", batch_id |-> batch_id,
                test_day |-> test_day, ph_value |-> ph_value]
    /\ result' = Ok(None)
    /\ \E ph_max \in (IF test_day = 14 THEN PhTargets(production_batches[batch_id])
                      ELSE {DefaultPhMax}) :
         ledger' =
            [ledger EXCEPT
               !.batch_tests =
                   Append(@, [batch_id |-> batch_id, test_type |-> "pH",
                              test_day |-> test_day, value |-> ph_value,
                              result |-> PhResult(ph_value)]),
               !.production_batches =
                   IF test_day = 14
                   THEN [@ EXCEPT ![batch_id].status = NewStatus(ph_value, ph_max)]
                   ELSE @]
    /\ UNCHANGED <<ingredients, recipes, menuItems, movements, procs>>

EmptyProductionDb(targets) ==
    [production_batches |-> <<>>, finished_inventory |-> <<>>,
     batch_inputs |-> <<>>, batch_tests |-> <<>>, product_targets |-> targets]

InitProductionDb(targets) ==
    /\ ingredients = Catalog
    /\ recipes = [r \in RecipeIds |-> [servings |-> 1, items |-> <<>>]]
    /\ menuItems = <<>>
    /\ movements = <<>>
    /\ ledger = EmptyProductionDb(targets)
    /\ procs = <<>>
    /\ call = NoCall
    /\ result = NoResult

Day1 == [year |-> 2025, month |-> 10, day |-> 13]
Day2 == [year |-> 2025, month |-> 10, day |-> 14]

-----------------------------------------------------------------------------
(* Lots of one busy day and of the day after.                              *)

MaxLots == 101       \* create_batch calls for the busy day
MaxOtherLots == 1    \* create_batch calls for the day after

LotsOf(produced_at) ==
    Cardinality({k \in 1..Len(production_batches) :
                    production_batches[k].produced_at = produced_at})

InitLots == InitProductionDb(<<>>)

NextLots ==
    \/ /\ LotsOf(Day1) < MaxLots
       /\ CreateBatch(Day1, 0, 0, RInt(12))
    \/ /\ LotsOf(Day2) < MaxOtherLots
       /\ CreateBatch(Day2, 0, 0, RInt(12))

SpecLots == InitLots /\ [][NextLots]_vars

\* The number written by the characters a..b of a text of digits.
StatedNumber(t, a, b) == DigitsValue(SubSeq(t, a, b), b - a + 1)

\* L<YYMMDD>-NN for the date d, NN from 01 to 99.
StatedLotCodeForm(code, d) ==
    /\ Len(code) = 10
    /\ code[1] = "L"
    /\ code[8] = "-"
    /\ \A i \in (2..7) \cup {9, 10} : IsDigit(code[i])
    /\ StatedNumber(code, 2, 3) = d.year % 100
    /\ StatedNumber(code, 4, 5) = d.month
    /\ StatedNumber(code, 6, 7) = d.day
    /\ StatedNumber(code, 9, 10) \in 1..99

\* The counters of the first n lots of the date d.
StatedCountersUsed(d, n) ==
    {StatedNumber(production_batches[k].lot_code, 9,
                  Len(production_batches[k].lot_code)) :
        k \in {j \in 1..n : production_batches[j].produced_at = d}}

StatedHighest(S) == IF S = {} THEN 0 ELSE CHOOSE x \in S : \A y \in S : y <= x

\* C29: every create_batch call succeeds and returns a lot code of the
\* form L<YYMMDD>-NN that no earlier lot has, NN (01-99) being one more
\* than the highest counter already used for the date.
C29_EveryLotGetsAFreshCode ==
    call.op = "create_batch" =>
        /\ result.kind = "ok"
        /\ StatedLotCodeForm(result.value.lot_code, call.produced_at)
        /\ \A k \in 1..(Len(production_batches) - 1) :
              production_batches[k].lot_code # result.value.lot_code
        /\ StatedNumber(result.value.lot_code, 9, 10) =
              StatedHighest(StatedCountersUsed(call.produced_at,
                                               Len(production_batches) - 1)) + 1


-----------------------------------------------------------------------------
(* Lots and their pH tests, the targets of product_targets as the          *)
(* database holds them when the page starts.                               *)

MaxBatches == 2      \* create_batch calls
MaxTests == 2        \* record_ph calls

PhTarget(recipe_id, product_id, ph_max) ==
    [recipe_id |-> recipe_id, product_id |-> product_id, ph_max |-> ph_max]

\* product_targets: empty, a target below or above 4.6 for recipe 1, a
\* target without ph_max, and a recipe target next to a product target.
TargetTables ==
    {<<>>,
     <<PhTarget(1, 0, Rat(42, 10))>>,
     <<PhTarget(1, 0, RInt(5))>>,
     <<PhTarget(0, 1, None)>>,
     <<PhTarget(1, 0, Rat(42, 10)), PhTarget(0, 1, RInt(5))>>}

PhValues == {None, RInt(4), Rat(44, 10), Rat(46, 10), Rat(48, 10)}

TestDays == {0, 14}

InitProduction == \E targets \in TargetTables : InitProductionDb(targets)

NextProduction ==
    \/ /\ Len(production_batches) < MaxBatches
       /\ \E produced_at \in {Day1, Day2}, recipe_id \in {0, 1}, product_id \in {0, 1} :
             CreateBatch(produced_at, recipe_id, product_id, RInt(12))
    \/ /\ Len(batch_tests) < MaxTests
       /\ \E batch_id \in 1..Len(production_batches), test_day \in TestDays,
             ph_value \in PhValues :
             RecordPh(batch_id, test_day, ph_value)

SpecProduction == InitProduction /\ [][NextProduction]_vars

\* The pH target of a lot: the ph_max of a row of product_targets for its
\* recipe or its product, else 4.6.
StatedPhTargets(batch) ==
    LET own == {product_targets[k].ph_max :
                   k \in {j \in 1..Len(product_targets) :
                             /\ ~ IsNone(product_targets[j].ph_max)
                             /\ \/ /\ batch.recipe_id # 0
                                   /\ product_targets[j].recipe_id = batch.recipe_id
                                \/ /\ batch.product_id # 0
                                   /\ product_targets[j].product_id = batch.product_id}}
    IN  IF own = {} THEN {Rat(46, 10)} ELSE own

StatedStatus(ph_value, target) ==
    IF ~ IsNone(ph_value) /\ RLe(ph_value, target) THEN "conforme" ELSE "non_conforme"

StatedStatusStep ==
    /\ (call'.op = "create_batch" /\ result'.kind = "ok") =>
          production_batches'[Len(production_batches')].status = "J0"
    /\ (call'.op = "record_ph" /\ call'.test_day # 14) =>
          production_batches' = production_batches
    /\ (call'.op = "record_ph" /\ call'.test_day = 14) =>
          /\ \E target \in StatedPhTargets(production_batches'[call'.batch_id]) :
                production_batches'[call'.batch_id].status =
                    StatedStatus(call'.ph_value, target)
          /\ (batch_tests'[Len(batch_tests')].result = "OK") <=>
                (production_batches'[call'.batch_id].status = "conforme")

\* C30: a lot is created with status 'J0'; record_ph with a test_day other
\* than 14 leaves the status as it is; record_ph with test_day 14 sets it
\* to 'conforme' exactly when the pH value is present and at most the pH
\* target of the lot (ph_max of product_targets for its recipe or product,
\* else 4.6), to 'non_conforme' otherwise, and the result stored with that
\* test is 'OK' if and only if the status is 'conforme'.
C30_StatusFollowsTheJ14Test == [][StatedStatusStep]_vars

============================================================================
